---- MODULE Spec2Model ----
(***************************************************************************)
(* consult-llm-mcp: the executor abstraction (API executor, Gemini, Codex, *)
(* Cursor and Agent CLI executors), the CLI process runner, the backend    *)
(* resolver with its two caches, and the consult_llm request handler.      *)
(*                                                                         *)
(* Text is modelled as a sequence of tokens (each token a short string),   *)
(* so that concatenation, containment, splitting on newlines and JSON      *)
(* parsing are computed, not assumed.  A thread id is a single string; the *)
(* JavaScript value undefined is the sentinel Undefined, and the empty     *)
(* string is "".                                                           *)
(***************************************************************************)
EXTENDS Integers, Sequences, FiniteSets, TLC

VARIABLES
    config,         \* the mutable config object (config.ts)
    runtime,        \* the Node.js release the server runs on (engines: >=18)
    executor,       \* variant of the executor the session calls execute on
    turn,           \* number of execute calls started in the session
    call,           \* arguments of the execute call in flight, or NoCall
    spawned,        \* what was handed to spawn(): [command, args], or NoSpawn
    child,          \* the child's 'close' / 'error' events emitted so far
    stdout,         \* closure variable stdout of the runner
    stderr,         \* closure variable stderr of the runner
    nData,          \* number of data events delivered for this child
    run,            \* the promise returned by runCli
    result,         \* the promise returned by execute
    closeSnap,      \* what the child had written when 'close' was emitted
    request,        \* the chat-completion request the API executor issued
    warnings,       \* number of console.warn calls of the API executor
    prev,           \* summary of the previous turn of the session
    legacy,         \* the call in flight on a createCliExecutor executor
    pair,           \* two calls of execute in flight at the same time
    stream,         \* a call of runCli in buffered or in streaming mode
    log,            \* a request whose log writes can fail
    executorCache,  \* Map<string, LlmExecutor> of createExecutorProvider
    clientCache,    \* Map<string, OpenAI> of createExecutorProvider
    nextId,         \* objects constructed so far, per cache key and provider
    req,            \* the consult_llm request being handled, with its position
    effects,        \* side effects of the request being handled
    resolved        \* executors returned per model since the last config change

execVars == <<runtime, executor, turn, call, spawned, child, stdout, stderr, nData,
              run, result, closeSnap, request, warnings, prev, legacy, pair, stream, log>>
serverVars == <<executorCache, clientCache, nextId, req, effects, resolved>>
vars == <<config, execVars, serverVars>>

-----------------------------------------------------------------------------
(* Bounds of the model *)

MaxChunks == 2
MaxTurns == 2
MaxInstances == 2

\* Executors the catalog walk lets the cache hold
MaxCached == 3

LongLen == 101

-----------------------------------------------------------------------------
(* JavaScript values *)

Undefined == "<undefined>"

\* JavaScript truthiness of an optional string: undefined and "" are falsy.
Truthy(s) == s # Undefined /\ s # ""

\* Text of a scalar string: "" is the empty text.
Txt(s) == IF s = "" THEN <<>> ELSE <<s>>

NullText == <<"<null>">>

\* Truthiness of an optional text (string | null | undefined).
TruthyText(t) == t # NullText /\ t # <<>>

RECURSIVE Concat(_)
Concat(seqs) == IF seqs = <<>> THEN <<>> ELSE Head(seqs) \o Concat(Tail(seqs))

\* Array.prototype.join
RECURSIVE Join(_, _)
Join(texts, sep) ==
    IF texts = <<>> THEN <<>>
    ELSE IF Len(texts) = 1 THEN texts[1]
    ELSE texts[1] \o sep \o Join(Tail(texts), sep)

\* String.prototype.includes
Contains(hay, needle) ==
    \E i \in 0..(Len(hay) - Len(needle)) :
        SubSeq(hay, i + 1, i + Len(needle)) = needle

StartsWith(text, prefix) ==
    Len(text) >= Len(prefix) /\ SubSeq(text, 1, Len(prefix)) = prefix

Map(f(_), s) == [i \in 1..Len(s) |-> f(s[i])]

-----------------------------------------------------------------------------
(* Paths: a path is a sequence of components; path.relative *)

Cwd == <<"w">>

RECURSIVE CommonLen(_, _)
CommonLen(a, b) ==
    IF a = <<>> \/ b = <<>> \/ Head(a) # Head(b) THEN 0
    ELSE 1 + CommonLen(Tail(a), Tail(b))

\* relative(process.cwd(), path), as text: components joined by "/"
Relative(from, to) ==
    LET k == CommonLen(from, to)
        ups == [i \in 1..(Len(from) - k) |-> <<"..">>]
        rest == [i \in 1..(Len(to) - k) |-> <<to[k + i]>>]
    IN Join(ups \o rest, <<"/">>)

UndefinedFiles == << <<Undefined>> >>

\* A test that takes only a missing argument for 'no files'
NoFilePathsUndefinedOnly(filePaths) == filePaths = UndefinedFiles

\* `!filePaths || filePaths.length === 0`
NoFilePaths(filePaths) == filePaths = UndefinedFiles \/ Len(filePaths) = 0

-----------------------------------------------------------------------------
(* Executor variants and their capability records *)

CliVariants == {"gemini", "codex", "cursor", "agent"}
Variants == CliVariants \cup {"api"}

\* The executors built on runCli; the others spawn the child themselves.
UsesRunCli(v) == v \in {"gemini", "codex"}

Capabilities(v) ==
    IF v = "api"
    THEN [isCli |-> FALSE, supportsThreads |-> FALSE, supportsFileRefs |-> FALSE]
    ELSE [isCli |-> TRUE, supportsThreads |-> TRUE, supportsFileRefs |-> TRUE]

Command(v) ==
    CASE v = "gemini" -> "gemini"
      [] v = "codex" -> "codex"
      [] v = "cursor" -> "cursor-agent"
      [] v = "agent" -> "agent"
      [] OTHER -> "none"

-----------------------------------------------------------------------------
(* Prompt composition *)

Sep == <<"\n\n">>

\* appendFiles of the Gemini and Codex executors: `@rel` joined by ' '
AppendFilesAt(text, filePaths) ==
    IF NoFilePaths(filePaths) THEN text
    ELSE LET refs == [i \in 1..Len(filePaths) |->
                          <<"@">> \o Relative(Cwd, filePaths[i])]
         IN text \o Sep \o <<"Files: ">> \o Join(refs, <<" ">>)

\* appendFiles of the Cursor executor: `- rel` joined by '\n'
AppendFilesList(text, filePaths) ==
    IF NoFilePaths(filePaths) THEN text
    ELSE LET items == [i \in 1..Len(filePaths) |->
                           <<"- ">> \o Relative(Cwd, filePaths[i])]
         IN text \o Sep \o <<"Please read the following files for context:", "\n">>
                 \o Join(items, <<"\n">>)

\* A Gemini executor that resends the system prompt on every turn
GeminiMessageWithSystem(prompt, systemPrompt, filePaths, threadId) ==
    systemPrompt \o Sep \o AppendFilesAt(prompt, filePaths)

GeminiMessage(prompt, systemPrompt, filePaths, threadId) ==
    LET messageWithFiles == AppendFilesAt(prompt, filePaths)
    IN IF Truthy(threadId) THEN messageWithFiles
       ELSE systemPrompt \o Sep \o messageWithFiles

CodexMessage(prompt, systemPrompt, filePaths, threadId) ==
    LET message == AppendFilesAt(prompt, filePaths)
    IN IF Truthy(threadId) THEN message
       ELSE systemPrompt \o Sep \o message

CursorMessage(prompt, systemPrompt, filePaths, threadId) ==
    LET messageWithFiles == AppendFilesList(prompt, filePaths)
    IN IF Truthy(threadId) THEN messageWithFiles
       ELSE systemPrompt \o Sep \o messageWithFiles

\* buildFullPrompt of the Agent executor
BuildFullPrompt(prompt, systemPrompt, filePaths) ==
    AppendFilesList(systemPrompt \o Sep \o prompt, filePaths)

AgentMessage(prompt, systemPrompt, filePaths, threadId) ==
    IF Truthy(threadId) THEN prompt
    ELSE BuildFullPrompt(prompt, systemPrompt, filePaths)

Message(v, prompt, systemPrompt, filePaths, threadId) ==
    CASE v = "gemini" -> GeminiMessage(prompt, systemPrompt, filePaths, threadId)
      [] v = "codex" -> CodexMessage(prompt, systemPrompt, filePaths, threadId)
      [] v = "cursor" -> CursorMessage(prompt, systemPrompt, filePaths, threadId)
      [] v = "agent" -> AgentMessage(prompt, systemPrompt, filePaths, threadId)
      [] OTHER -> prompt

-----------------------------------------------------------------------------
(* Argument vectors: every argument is a text *)

GeminiArgs(model, message, threadId) ==
    << <<"-m">>, model, <<"-o">>, <<"json">> >>
    \o (IF Truthy(threadId) THEN << <<"-r">>, Txt(threadId) >> ELSE <<>>)
    \o << <<"-p">>, message >>

\* An effort pair that is passed whether or not an effort is configured
EffortPairAlways(effort) ==
    << <<"-c">>, <<"model_reasoning_effort=", "\"", effort, "\"">> >>

\* '-c', `model_reasoning_effort="${config.codexReasoningEffort}"`
EffortPair(effort) ==
    IF Truthy(effort)
    THEN << <<"-c">>, <<"model_reasoning_effort=", "\"", effort, "\"">> >>
    ELSE <<>>

\* A Codex executor that falls back to a fresh session
CodexArgsFresh(model, fullPrompt, threadId, effort) ==
    << <<"exec">>, <<"--json">>, <<"--skip-git-repo-check">> >>
    \o EffortPair(effort)
    \o << <<"-m">>, model, fullPrompt >>

CodexArgs(model, fullPrompt, threadId, effort) ==
    IF Truthy(threadId)
    THEN << <<"exec">>, <<"resume">>, <<"--json">>, <<"--skip-git-repo-check">> >>
         \o EffortPair(effort)
         \o << <<"-m">>, model, Txt(threadId), fullPrompt >>
    ELSE << <<"exec">>, <<"--json">>, <<"--skip-git-repo-check">> >>
         \o EffortPair(effort)
         \o << <<"-m">>, model, fullPrompt >>

\* String.prototype.replace(pattern, ''): the first occurrence only
RemoveFirst(text, tok) ==
    IF \E i \in 1..Len(text) : text[i] = tok
    THEN LET i == CHOOSE j \in 1..Len(text) :
                      text[j] = tok /\ \A k \in 1..(j - 1) : text[k] # tok
         IN SubSeq(text, 1, i - 1) \o SubSeq(text, i + 1, Len(text))
    ELSE text

\* A Cursor executor that appends the effort to every model name
CursorModelEffortAlways(model, effort) ==
    LET cursorModel == RemoveFirst(model, "-preview")
    IN IF Truthy(effort) THEN cursorModel \o <<"-", effort>> ELSE cursorModel

\* cursorModel: model.replace('-preview', ''), then `-${effort}` appended when
\* an effort is configured and the name includes '-codex'
CursorModel(model, effort) ==
    LET cursorModel == RemoveFirst(model, "-preview")
    IN IF Truthy(effort) /\ Contains(cursorModel, <<"-codex">>)
       THEN cursorModel \o <<"-", effort>>
       ELSE cursorModel

AskFlags == << <<"--print">>, <<"--trust">>, <<"--output-format">>, <<"json">>,
               <<"--mode">>, <<"ask">>, <<"--model">> >>

CursorArgs(model, message, threadId, effort) ==
    AskFlags \o << CursorModel(model, effort) >>
    \o (IF Truthy(threadId) THEN << <<"--resume">>, Txt(threadId) >> ELSE <<>>)
    \o << message >>

AgentArgs(model, message, threadId) ==
    AskFlags \o << model >>
    \o (IF Truthy(threadId) THEN << <<"--resume">>, Txt(threadId) >> ELSE <<>>)
    \o << message >>

\* An executor that remembers the session of its previous call and resumes it
\* when the next call brings no thread id
BuildArgsResuming(v, model, message, threadId, effort) ==
    LET t == IF ~Truthy(threadId) /\ result.state = "fulfilled"
                /\ Truthy(result.threadId)
             THEN result.threadId ELSE threadId
    IN CASE v = "gemini" -> GeminiArgs(model, message, t)
         [] v = "codex" -> CodexArgs(model, message, t, effort)
         [] v = "cursor" -> CursorArgs(model, message, t, effort)
         [] v = "agent" -> AgentArgs(model, message, t)
         [] OTHER -> <<>>

\* The argument vector each executor builds in execute
BuildArgs(v, model, message, threadId, effort) ==
    CASE v = "gemini" -> GeminiArgs(model, message, threadId)
      [] v = "codex" -> CodexArgs(model, message, threadId, effort)
      [] v = "cursor" -> CursorArgs(model, message, threadId, effort)
      [] v = "agent" -> AgentArgs(model, message, threadId)
      [] OTHER -> <<>>

-----------------------------------------------------------------------------
(* JSON text.  A field token stands for one complete `"key": value` pair. *)

Field(key, str, itype) == [key |-> key, str |-> str, itype |-> itype]

FieldTokens == {"sid=t1", "sid=t2", "resp=hi", "resp=", "res=ok", "res=",
                "type=ts", "type=ic", "tid=t1", "tid=t2",
                "item=am:hi", "item=am:ok", "item=am:", "item=rs:hm"}

FieldOf(tok) ==
    CASE tok = "sid=t1" -> Field("session_id", <<"t1">>, "")
      [] tok = "sid=t2" -> Field("session_id", <<"t2">>, "")
      [] tok = "resp=hi" -> Field("response", <<"hi">>, "")
      [] tok = "resp=" -> Field("response", <<>>, "")
      [] tok = "res=ok" -> Field("result", <<"ok">>, "")
      [] tok = "res=" -> Field("result", <<>>, "")
      [] tok = "type=ts" -> Field("type", <<"thread.started">>, "")
      [] tok = "type=ic" -> Field("type", <<"item.completed">>, "")
      [] tok = "tid=t1" -> Field("thread_id", <<"t1">>, "")
      [] tok = "tid=t2" -> Field("thread_id", <<"t2">>, "")
      [] tok = "item=am:hi" -> Field("item", <<"hi">>, "agent_message")
      [] tok = "item=am:ok" -> Field("item", <<"ok">>, "agent_message")
      [] tok = "item=am:" -> Field("item", <<>>, "agent_message")
      [] tok = "item=rs:hm" -> Field("item", <<"hm">>, "reasoning")
      [] OTHER -> Field("", <<>>, "")

Whitespace == {" ", "\n"}

IsSpace(tok) == tok \in Whitespace
NotSpace(tok) == tok \notin Whitespace

\* JSON.parse: `null`, or an object `{ field, field, ... }`; whitespace between
\* tokens is insignificant; anything else is a SyntaxError.
JsonParse(text) ==
    LET toks == SelectSeq(text, NotSpace)
        n == Len(toks)
        inner == SubSeq(toks, 2, n - 1)
        wellFormed ==
            /\ n >= 2 /\ toks[1] = "{" /\ toks[n] = "}"
            /\ \/ inner = <<>>
               \/ /\ Len(inner) % 2 = 1
                  /\ \A i \in 1..Len(inner) :
                        IF i % 2 = 1 THEN inner[i] \in FieldTokens
                                     ELSE inner[i] = ","
    IN IF toks = <<"null">> THEN [ok |-> TRUE, isNull |-> TRUE, fields |-> <<>>]
       ELSE IF wellFormed
       THEN [ok |-> TRUE, isNull |-> FALSE,
             fields |-> SelectSeq(inner, LAMBDA t : t # ",")]
       ELSE [ok |-> FALSE, isNull |-> FALSE, fields |-> <<>>]

\* obj[key]: the last field of that name wins; absent is Absent
Absent == Field("<absent>", NullText, "")

Get(fields, key) ==
    LET idx == {i \in 1..Len(fields) : FieldOf(fields[i]).key = key}
    IN IF idx = {} THEN Absent
       ELSE FieldOf(fields[CHOOSE i \in idx : \A j \in idx : j <= i])

\* The string value of an optional string field, as a thread id
IdOf(f) == IF f = Absent THEN Undefined
           ELSE IF f.str = <<>> THEN "" ELSE f.str[1]

\* `field ?? ''`
OrEmpty(f) == IF f = Absent THEN <<>> ELSE f.str

\* parseGeminiJson: throws on a SyntaxError, and on `null` (property of null)
ParseGeminiJson(output) ==
    LET parsed == JsonParse(output)
    IN IF ~parsed.ok \/ parsed.isNull
       THEN [threw |-> TRUE, sessionId |-> Undefined, response |-> <<>>]
       ELSE [threw |-> FALSE,
             sessionId |-> IdOf(Get(parsed.fields, "session_id")),
             response |-> OrEmpty(Get(parsed.fields, "response"))]

\* parseCursorJson and parseAgentJson
ParseCursorJson(output) ==
    LET parsed == JsonParse(output)
    IN IF ~parsed.ok \/ parsed.isNull
       THEN [threw |-> TRUE, sessionId |-> Undefined, response |-> <<>>]
       ELSE [threw |-> FALSE,
             sessionId |-> IdOf(Get(parsed.fields, "session_id")),
             response |-> OrEmpty(Get(parsed.fields, "result"))]

\* String.prototype.split('\n')
RECURSIVE SplitLines(_)
SplitLines(text) ==
    IF \E i \in 1..Len(text) : text[i] = "\n"
    THEN LET i == CHOOSE j \in 1..Len(text) :
                      text[j] = "\n" /\ \A k \in 1..(j - 1) : text[k] # "\n"
         IN <<SubSeq(text, 1, i - 1)>> \o SplitLines(SubSeq(text, i + 1, Len(text)))
    ELSE <<text>>

\* String.prototype.trim
RECURSIVE TrimLeft(_)
TrimLeft(text) ==
    IF text # <<>> /\ IsSpace(Head(text)) THEN TrimLeft(Tail(text)) ELSE text

RECURSIVE TrimRight(_)
TrimRight(text) ==
    IF text # <<>> /\ IsSpace(text[Len(text)])
    THEN TrimRight(SubSeq(text, 1, Len(text) - 1)) ELSE text

Trim(text) == TrimRight(TrimLeft(text))

\* A loop body that takes the text of every completed item
CodexLineAnyItem(acc, line) ==
    LET parsed == JsonParse(Trim(line))
        item == Get(parsed.fields, "item")
        threadId == Get(parsed.fields, "thread_id")
    IN IF ~parsed.ok \/ parsed.isNull THEN acc
       ELSE IF Get(parsed.fields, "type").str = <<"thread.started">>
               /\ Truthy(IdOf(threadId))
       THEN [acc EXCEPT !.threadId = IdOf(threadId)]
       ELSE IF item # Absent /\ item.str # <<>>
       THEN [acc EXCEPT !.messages = Append(@, item.str)]
       ELSE acc

\* One iteration of the loop of parseCodexJsonl over a line
CodexLine(acc, line) ==
    LET trimmed == Trim(line)
        parsed == JsonParse(trimmed)
        type == Get(parsed.fields, "type")
        threadId == Get(parsed.fields, "thread_id")
        item == Get(parsed.fields, "item")
    IN IF trimmed = <<>> THEN acc
       ELSE IF ~parsed.ok \/ parsed.isNull THEN acc
       ELSE IF type.str = <<"thread.started">> /\ Truthy(IdOf(threadId))
       THEN [acc EXCEPT !.threadId = IdOf(threadId)]
       ELSE IF /\ type.str = <<"item.completed">>
               /\ item # Absent
               /\ item.itype = "agent_message"
               /\ item.str # <<>>
       THEN [acc EXCEPT !.messages = Append(@, item.str)]
       ELSE acc

RECURSIVE CodexFold(_, _)
CodexFold(acc, lines) ==
    IF lines = <<>> THEN acc
    ELSE CodexFold(CodexLine(acc, Head(lines)), Tail(lines))

ParseCodexJsonl(output) ==
    LET acc == CodexFold([threadId |-> Undefined, messages |-> <<>>],
                         SplitLines(output))
    IN [threadId |-> acc.threadId, response |-> Join(acc.messages, <<"\n">>)]

-----------------------------------------------------------------------------
(* Promises and outcomes.  Durations (wall-clock) are not modelled. *)

SliceLimit == 200

\* stdout.slice(0, 200)
Slice(text) == SubSeq(text, 1, IF Len(text) < SliceLimit THEN Len(text) ELSE SliceLimit)

\* `${code ?? -1}`: exit codes are "0", "1", ... and "null"
CodeOr(code) == IF code = "null" THEN "-1" ELSE code

RunPending ==
    [state |-> "pending", err |-> "", command |-> "",
     stdout |-> <<>>, stderr |-> <<>>, code |-> ""]

\* resolve({ stdout, stderr, code, duration })
RunResolved(out, err, code) ==
    [state |-> "fulfilled", err |-> "", command |-> "",
     stdout |-> out, stderr |-> err, code |-> code]

\* reject(new Error(`Failed to spawn ${command} CLI. ...`)) and
\* reject(new Error(`Synchronous error while trying to spawn ${command}: ...`))
RunRejected(kind, command) ==
    [state |-> "rejected", err |-> kind, command |-> command,
     stdout |-> <<>>, stderr |-> <<>>, code |-> ""]

Pending ==
    [state |-> "pending", kind |-> "", response |-> <<>>, threadId |-> Undefined,
     usage |-> "none", command |-> "", code |-> "", detail |-> <<>>]

Success(response, threadId, usage) ==
    [state |-> "fulfilled", kind |-> "success", response |-> response,
     threadId |-> threadId, usage |-> usage, command |-> "", code |-> "",
     detail |-> <<>>]

Failure(kind, command, code, detail) ==
    [state |-> "rejected", kind |-> kind, response |-> <<>>,
     threadId |-> Undefined, usage |-> "none", command |-> command,
     code |-> code, detail |-> detail]

\* A promise that the last resolve or reject wins
SettleLastWins(promise, outcome) == outcome

\* A promise settles at most once: resolve and reject on a settled promise
\* are no-ops.
Settle(promise, outcome) ==
    IF promise.state = "pending" THEN outcome ELSE promise

\* A runner that turns a non-zero exit code into a rejection
RunCliOnCloseRejects(out, err, code) ==
    IF code = "0" THEN RunResolved(out, err, code) ELSE RunRejected("exit", "")

\* The 'close' handler of runCli
RunCliOnClose(out, err, code) == RunResolved(out, err, code)

\* A runner that reports a spawn failure as an exit without a code
RunCliOnErrorResolves(command) == RunResolved(<<>>, <<>>, "null")

\* A runner that only logs the 'error' event
RunCliOnErrorLogsOnly(command) == RunPending

\* The 'error' handler of runCli
RunCliOnError(command) == RunRejected("spawn", command)

\* Node.js releases the package admits ("engines": node >= 18.0.0): the
\* SyntaxError of JSON.parse names the offending character and its position
\* on Node 18, and quotes the source text from Node 20 on.
Runtimes == {"node18", "node20"}

\* Number of characters a token of model text stands for; a field of an
\* object takes at least 11 characters (`"result":""`)
Chars(token) ==
    CASE token = "No response" -> 11
      [] token = "null" -> 4
      [] token \in {"{", "}", ",", " ", "\n", "x", "z"} -> 1
      [] OTHER -> 11

RECURSIVE CharLen(_)
CharLen(text) ==
    IF text = <<>> THEN 0 ELSE Chars(Head(text)) + CharLen(Tail(text))

\* A source of fewer than 21 characters; every token is a character at least
ShortSource(text) == Len(text) < 21 /\ CharLen(text) < 21

\* The text does not begin with a JSON value: JSON.parse fails on its first
\* character with 'Unexpected token'
UnexpectedFirstToken(text) ==
    LET tokens == SelectSeq(text, NotSpace)
    IN tokens # <<>> /\ tokens[1] \notin {"{", "null"}

\* err.message of what JSON.parse / the property access threw.  From Node 20
\* on an unexpected token in a source of fewer than 21 characters gives
\* `Unexpected token 'N', "<source>" is not valid JSON`; a longer source is
\* quoted by at most 10 characters either side of the token, and the other
\* syntax errors do not quote the source.
ParseErrorMessage(output) ==
    IF JsonParse(output).ok
    THEN <<"Cannot read properties of null">>
    ELSE IF runtime = "node20" /\ UnexpectedFirstToken(output) /\ ShortSource(output)
    THEN <<"Unexpected token">> \o output \o <<"is not valid JSON">>
    ELSE <<"Unexpected token in JSON">>

\* A Gemini executor that reports every non-zero exit as a quota error when
\* stderr is not empty
GeminiOutcomeQuotaOnAnyStderr(out, err, code) ==
    IF code = "0"
    THEN LET parsed == ParseGeminiJson(out)
         IN IF parsed.threw
            THEN Failure("parse", "gemini", code, Slice(out))
            ELSE IF ~TruthyText(parsed.response)
            THEN Failure("noresponse", "gemini", code, <<>>)
            ELSE Success(parsed.response, parsed.sessionId, "null")
    ELSE IF err # <<>>
    THEN Failure("quota", "gemini", code, Trim(err))
    ELSE Failure("exit", "gemini", CodeOr(code), Trim(err))

\* createGeminiExecutor.execute after `await runCli('gemini', args)`
GeminiOutcome(out, err, code) ==
    IF code = "0"
    THEN LET parsed == ParseGeminiJson(out)
         IN IF parsed.threw
            THEN IF Contains(ParseErrorMessage(out), <<"No response">>)
                 THEN Failure("syntax", "gemini", code, ParseErrorMessage(out))
                 ELSE Failure("parse", "gemini", code, Slice(out))
            ELSE IF ~TruthyText(parsed.response)
            THEN Failure("noresponse", "gemini", code, <<>>)
            ELSE Success(parsed.response, parsed.sessionId, "null")
    ELSE IF Contains(err, <<"RESOURCE_EXHAUSTED">>)
    THEN Failure("quota", "gemini", code, Trim(err))
    ELSE Failure("exit", "gemini", CodeOr(code), Trim(err))

\* A Codex executor that returns whatever message text it found
CodexOutcomeUnchecked(out, err, code) ==
    IF code = "0"
    THEN Success(ParseCodexJsonl(out).response, ParseCodexJsonl(out).threadId, "null")
    ELSE Failure("exit", "codex", CodeOr(code), Trim(err))

\* createCodexExecutor.execute after `await runCli('codex', args)`
CodexOutcome(out, err, code) ==
    IF code = "0"
    THEN LET parsed == ParseCodexJsonl(out)
         IN IF ~TruthyText(parsed.response)
            THEN Failure("noresponse", "codex", code, <<>>)
            ELSE Success(parsed.response, parsed.threadId, "null")
    ELSE Failure("exit", "codex", CodeOr(code), Trim(err))

\* The 'close' handler of createCursorExecutor.execute
CursorOutcome(out, err, code, threadId) ==
    IF code = "0"
    THEN LET parsed == ParseCursorJson(out)
         IN IF parsed.threw THEN Failure("parse", "cursor-agent", code, Slice(out))
            ELSE IF ~TruthyText(parsed.response)
            THEN Failure("noresponse", "cursor-agent", code, <<>>)
            ELSE Success(parsed.response,
                         IF parsed.sessionId = Undefined THEN threadId
                         ELSE parsed.sessionId,
                         "null")
    ELSE Failure("exit", "cursor-agent", CodeOr(code), Trim(err))

\* The 'close' handler of createAgentExecutor.execute
AgentOutcome(out, err, code) ==
    IF code = "0"
    THEN LET parsed == ParseCursorJson(out)
         IN IF parsed.threw THEN Failure("parse", "agent", code, Slice(out))
            ELSE IF ~TruthyText(parsed.response)
            THEN Failure("noresponse", "agent", code, <<>>)
            ELSE Success(parsed.response, parsed.sessionId, "null")
    ELSE Failure("exit", "agent", CodeOr(code), Trim(err))

\* What the executor makes of a closed child
CloseOutcome(v, out, err, code, threadId) ==
    CASE v = "gemini" -> GeminiOutcome(out, err, code)
      [] v = "codex" -> CodexOutcome(out, err, code)
      [] v = "cursor" -> CursorOutcome(out, err, code, threadId)
      [] v = "agent" -> AgentOutcome(out, err, code)
      [] OTHER -> Pending

\* An API executor that hands the usage of the completion back as a thread id
ApiOutcomeWithThread(completion) ==
    IF completion.choices = <<>> \/ ~TruthyText(completion.choices[1])
    THEN Failure("api-empty", "", "", <<>>)
    ELSE Success(completion.choices[1], completion.usage, "null")

\* createApiExecutor.execute after `await client.chat.completions.create(...)`:
\* a completion is [choices |-> sequence of message contents, usage |-> ...]
ApiOutcome(completion) ==
    LET response == IF completion.choices = <<>> THEN NullText
                    ELSE completion.choices[1]
    IN IF ~TruthyText(response)
       THEN Failure("api-empty", "", "", <<>>)
       ELSE Success(response, Undefined,
                    IF completion.usage = "none" THEN "null" ELSE completion.usage)

-----------------------------------------------------------------------------
(* Inputs of the executor sessions *)

SystemPrompts == {<<"SYS">>}
UserPrompts == {<<"ask">>}

FileA == <<"w", "a.ts">>
FileB == <<"x", "b.ts">>
FileInputs == {UndefinedFiles, <<>>, <<FileA, FileB>>}

ThreadInputs == {Undefined, "", "t1", "t2"}
EffortInputs == {Undefined, "high"}

ModelsFor(v) ==
    CASE v = "gemini" -> {<<"gemini-", "2.5-pro">>}
      [] v = "codex" -> {<<"gpt-", "5.2">>}
      [] v = "cursor" -> {<<"gpt-", "5.3", "-codex">>,
                          <<"gemini-", "3-pro", "-preview">>}
      [] v = "agent" -> {<<"gpt-", "5.2">>}
      [] OTHER -> {<<"gpt-", "5.2">>}

\* Complete outputs a backend of variant v writes in one chunk
WholeOutputs(v) ==
    IF v = "codex"
    THEN {<<"{", "type=ts", ",", "tid=t1", "}", "\n",
            "{", "type=ic", ",", "item=am:hi", "}", "\n">>,
          <<"{", "type=ic", ",", "item=am:hi", "}">>,
          <<"{", "type=ts", ",", "tid=t2", "}", "\n">>,
          <<"x">>}
    ELSE IF v = "gemini"
    THEN {<<"{", "sid=t1", ",", "resp=hi", "}">>,
          <<"{", "resp=hi", "}">>,
          <<"{", "sid=t2", "}">>,
          <<"x">>}
    ELSE {<<"{", "sid=t1", ",", "res=ok", "}">>,
          <<"{", "res=ok", "}">>,
          <<"{", "sid=t2", "}">>,
          <<"x">>}

\* An output of LongLen characters that is not JSON
LongText == [i \in 1..LongLen |-> "z"]

\* Fragments of output, for the runs that follow the child event by event
Fragments(v) ==
    IF v = "codex"
    THEN {<<"{", "type=ts", ",", "tid=t1", "}", "\n">>,
          <<"{", "type=ic", ",", "item=am:hi", "}">>,
          <<"\n", "{", "type=ic", ",", "item=am:ok", "}", " ">>,
          <<"\n", "x", "\n", "{", "type=ic", ",", "item=am:", "}", "\n",
            "{", "type=ic", ",", "item=rs:hm", "}", "\n", "null", "\n",
            "{", "type=ic", ",", "item=am:ok", "}", "\n">>}
    ELSE IF v = "gemini"
    THEN {<<"{", "sid=t1", ",">>, <<"resp=hi", "}">>, <<"{", "resp=", "}">>,
          <<"null">>, <<"No response", "\n">>, LongText}
    ELSE IF v = "cursor"
    THEN {<<"{", "sid=t1", ",">>, <<"res=ok", "}">>, <<"{", "res=", "}">>,
          <<"x">>, LongText}
    ELSE {<<"{", "sid=t1", ",">>, <<"res=ok", "}">>, <<"{", "res=", "}">>,
          <<"x">>}

StderrChunks == {<<"boom", "\n">>, <<"RESOURCE_EXHAUSTED">>}

ExitCodes == {"0", "1", "null"}

\* Completions the chat-completion endpoint returns
Completions ==
    {[choices |-> c, usage |-> u] :
        c \in {<<>>, <<NullText>>, << <<>> >>, << <<"4">> >>},
        u \in {"none", "usage"}}

-----------------------------------------------------------------------------
(* State of an executor session *)

NoCall ==
    [active |-> FALSE, prompt |-> <<>>, model |-> <<>>, systemPrompt |-> <<>>,
     filePaths |-> UndefinedFiles, threadId |-> Undefined]

NoSpawn == [called |-> FALSE, command |-> "", args |-> <<>>]
NoChild == [alive |-> FALSE, order |-> <<>>]
NoSnap == [taken |-> FALSE, stdout |-> <<>>, stderr |-> <<>>, code |-> ""]
NoRequest == [sent |-> FALSE, model |-> <<>>, messages |-> <<>>]
NoPrev == [fresh |-> FALSE, returned |-> Undefined]

\* No call on a createCliExecutor executor: the closure variables of its
\* execute, the timer, the child and the promise
NoLegacy ==
    [active |-> FALSE, cli |-> "", timer |-> "none", hasResponded |-> FALSE,
     killed |-> FALSE, stdout |-> <<>>, stderr |-> <<>>, order |-> <<>>,
     promise |-> Pending]

\* The calls that can be in flight together
Slots == {1, 2}

\* A call that has not started: its child's own output so far (wrote,
\* wroteErr), the child's events, what the child had written when it closed,
\* the promise of runCli and the promise of execute
NoSlot ==
    [active |-> FALSE, variant |-> "", wrote |-> <<>>, wroteErr |-> <<>>,
     order |-> <<>>, snap |-> NoSnap, run |-> RunPending, result |-> Pending]

NoBuffer == [stdout |-> <<>>, stderr |-> <<>>]

NoPair == [calls |-> [i \in Slots |-> NoSlot], buffers |-> [b \in Slots |-> NoBuffer]]

\* No call of runCli: what the child has written on stdout (wrote), the
\* accumulators of runCli, the line buffer of the readline interface and
\* whether its last chunk ended in a carriage return, the lines handed to
\* onLine, whether stdout has ended, and the promise
NoStream ==
    [active |-> FALSE, streaming |-> FALSE, wrote |-> <<>>, chunks |-> 0,
     stdout |-> <<>>, stderr |-> <<>>, buffer |-> <<>>, sawReturn |-> FALSE,
     delivered |-> <<>>, ended |-> FALSE, order |-> <<>>, run |-> RunPending]

\* No request: the executor variant, what the child wrote, its events, what
\* it had written when it closed, the promises of runCli, of execute and of
\* handleConsultLlm, the log writes that failed and the failures reported
\* on stderr
NoLog ==
    [active |-> FALSE, variant |-> "", stdout |-> <<>>, stderr |-> <<>>,
     order |-> <<>>, snap |-> NoSnap, run |-> RunPending, result |-> Pending,
     returned |-> Pending, failures |-> 0, reported |-> 0]

DefaultConfig ==
    [codexReasoningEffort |-> Undefined, openaiMode |-> "api",
     geminiMode |-> "api", openaiApiKey |-> TRUE, geminiApiKey |-> TRUE,
     deepseekApiKey |-> TRUE]

EmptyMap == <<>>

NoClient == [provider |-> "", instance |-> 0]

NoExecutor ==
    [key |-> <<>>, instance |-> 0, variant |-> "", client |-> NoClient]

NoReq ==
    [pc |-> "idle", model |-> <<>>, threadId |-> Undefined, webMode |-> FALSE,
     hasFiles |-> FALSE, hasDiff |-> FALSE, executor |-> NoExecutor,
     outcome |-> "", detail |-> <<>>, returned |-> Undefined]

NoEffects ==
    [filesRead |-> FALSE, diffGenerated |-> FALSE, clipboard |-> FALSE,
     clipboardText |-> <<>>, executed |-> FALSE, filePathsPassed |-> FALSE,
     prompt |-> <<>>]

ServerInit ==
    /\ executorCache = EmptyMap
    /\ clientCache = EmptyMap
    /\ nextId = EmptyMap
    /\ req = NoReq
    /\ effects = NoEffects
    /\ resolved = EmptyMap

ExecInit ==
    /\ turn = 0
    /\ call = NoCall
    /\ spawned = NoSpawn
    /\ child = NoChild
    /\ stdout = <<>>
    /\ stderr = <<>>
    /\ nData = 0
    /\ run = RunPending
    /\ result = Pending
    /\ closeSnap = NoSnap
    /\ request = NoRequest
    /\ warnings = 0
    /\ prev = NoPrev
    /\ legacy = NoLegacy
    /\ pair = NoPair
    /\ stream = NoStream
    /\ log = NoLog

\* An executor of any variant, under any reasoning-effort setting
Init ==
    /\ executor \in Variants
    /\ runtime \in Runtimes
    /\ config \in {[DefaultConfig EXCEPT !.codexReasoningEffort = e] :
                       e \in EffortInputs}
    /\ ExecInit
    /\ ServerInit

-----------------------------------------------------------------------------
(* execute(prompt, model, systemPrompt, filePaths, threadId) *)

\* A caller awaits the result of a turn before it starts the next one.
CanStart(maxTurns) ==
    /\ turn < maxTurns
    /\ (call.active => result.state # "pending")

\* What the caller keeps of the turn that ends when the next one starts
Remember ==
    IF ~call.active THEN prev
    ELSE [fresh |-> call.threadId = Undefined,
          returned |-> IF result.state = "fulfilled" THEN result.threadId
                       ELSE Undefined]

\* A CLI executor: compose the prompt, build the argument vector and spawn.
\* The body runs synchronously up to the spawn; `throws` is spawn() throwing.
ExecuteCli(prompt, model, systemPrompt, filePaths, threadId, throws, maxTurns) ==
    /\ executor \in CliVariants
    /\ CanStart(maxTurns)
    /\ LET message == Message(executor, prompt, systemPrompt, filePaths, threadId)
           args == BuildArgs(executor, model, message, threadId,
                             config.codexReasoningEffort)
       IN spawned' = [called |-> TRUE, command |-> Command(executor), args |-> args]
    /\ call' = [active |-> TRUE, prompt |-> prompt, model |-> model,
                systemPrompt |-> systemPrompt, filePaths |-> filePaths,
                threadId |-> threadId]
    /\ turn' = turn + 1
    /\ prev' = Remember
    /\ child' = [alive |-> ~throws, order |-> <<>>]
    /\ stdout' = <<>>
    /\ stderr' = <<>>
    /\ nData' = 0
    /\ closeSnap' = NoSnap
    /\ run' = IF throws /\ UsesRunCli(executor)
              THEN RunRejected("sync", Command(executor)) ELSE RunPending
    /\ result' = IF throws /\ ~UsesRunCli(executor)
                 THEN Failure("sync", Command(executor), "", <<>>) ELSE Pending
    /\ request' = NoRequest
    /\ warnings' = 0
    /\ UNCHANGED <<config, runtime, executor, legacy, pair, stream, log, serverVars>>

\* An API executor that puts the file references into the user message
ApiRequestWithFiles(prompt, model, systemPrompt, filePaths) ==
    [sent |-> TRUE, model |-> model,
     messages |-> <<[role |-> "system", content |-> systemPrompt],
                    [role |-> "user",
                     content |-> AppendFilesAt(prompt, filePaths)]>>]

\* The argument of client.chat.completions.create
ApiRequest(prompt, model, systemPrompt, filePaths) ==
    [sent |-> TRUE, model |-> model,
     messages |-> <<[role |-> "system", content |-> systemPrompt],
                    [role |-> "user", content |-> prompt]>>]

\* Calls of console.warn: one `if (filePaths && filePaths.length > 0)`
ApiWarnings(filePaths) == IF ~NoFilePaths(filePaths) THEN 1 ELSE 0

\* The API executor: warn about file paths, then issue the chat completion.
ExecuteApi(prompt, model, systemPrompt, filePaths, threadId, maxTurns) ==
    /\ executor = "api"
    /\ CanStart(maxTurns)
    /\ warnings' = ApiWarnings(filePaths)
    /\ request' = ApiRequest(prompt, model, systemPrompt, filePaths)
    /\ call' = [active |-> TRUE, prompt |-> prompt, model |-> model,
                systemPrompt |-> systemPrompt, filePaths |-> filePaths,
                threadId |-> threadId]
    /\ turn' = turn + 1
    /\ prev' = Remember
    /\ spawned' = NoSpawn
    /\ child' = NoChild
    /\ stdout' = <<>>
    /\ stderr' = <<>>
    /\ nData' = 0
    /\ closeSnap' = NoSnap
    /\ run' = RunPending
    /\ result' = Pending
    /\ UNCHANGED <<config, runtime, executor, legacy, pair, stream, log, serverVars>>

\* The chat completion returns.
ApiRespond(completion) ==
    /\ executor = "api"
    /\ call.active
    /\ result.state = "pending"
    /\ result' = ApiOutcome(completion)
    /\ UNCHANGED <<config, runtime, executor, turn, call, spawned, child, stdout, stderr,
                   nData, run, closeSnap, request, warnings, prev, legacy, pair, stream, log, serverVars>>

\* The chat completion request fails; the rejection propagates.
ApiReject ==
    /\ executor = "api"
    /\ call.active
    /\ result.state = "pending"
    /\ result' = Failure("api-error", "", "", <<>>)
    /\ UNCHANGED <<config, runtime, executor, turn, call, spawned, child, stdout, stderr,
                   nData, run, closeSnap, request, warnings, prev, legacy, pair, stream, log, serverVars>>

-----------------------------------------------------------------------------
(* Events of the child process *)

\* child.stdout 'data': stdout += chunk
ChildStdout(chunk, maxData) ==
    /\ child.alive
    /\ nData < maxData
    /\ stdout' = stdout \o chunk
    /\ nData' = nData + 1
    /\ UNCHANGED <<config, runtime, executor, turn, call, spawned, child, stderr, run,
                   result, closeSnap, request, warnings, prev, legacy, pair, stream, log, serverVars>>

\* child.stderr 'data': stderr += data.toString()
ChildStderr(chunk, maxData) ==
    /\ child.alive
    /\ nData < maxData
    /\ stderr' = stderr \o chunk
    /\ nData' = nData + 1
    /\ UNCHANGED <<config, runtime, executor, turn, call, spawned, child, stdout, run,
                   result, closeSnap, request, warnings, prev, legacy, pair, stream, log, serverVars>>

\* child 'close': runCli resolves its promise; the Cursor and Agent executors
\* settle the result of execute in the handler itself.
ChildClose(code) ==
    /\ child.alive
    /\ \A i \in 1..Len(child.order) : child.order[i] # "close"
    /\ child' = [child EXCEPT !.order = Append(@, "close")]
    /\ closeSnap' = [taken |-> TRUE, stdout |-> stdout, stderr |-> stderr,
                     code |-> code]
    /\ IF UsesRunCli(executor)
       THEN /\ run' = Settle(run, RunCliOnClose(stdout, stderr, code))
            /\ UNCHANGED result
       ELSE /\ result' = Settle(result, CloseOutcome(executor, stdout, stderr,
                                                     code, call.threadId))
            /\ UNCHANGED run
    /\ UNCHANGED <<config, runtime, executor, turn, call, spawned, stdout, stderr, nData,
                   request, warnings, prev, legacy, pair, stream, log, serverVars>>

\* child 'error'
ChildError ==
    /\ child.alive
    /\ \A i \in 1..Len(child.order) : child.order[i] # "error"
    /\ child' = [child EXCEPT !.order = Append(@, "error")]
    /\ IF UsesRunCli(executor)
       THEN /\ run' = Settle(run, RunCliOnError(spawned.command))
            /\ UNCHANGED result
       ELSE /\ result' = Settle(result, Failure("spawn", spawned.command, "", <<>>))
            /\ UNCHANGED run
    /\ UNCHANGED <<config, runtime, executor, turn, call, spawned, stdout, stderr, nData,
                   closeSnap, request, warnings, prev, legacy, pair, stream, log, serverVars>>

\* What execute makes of the settled promise of runCli
AfterRun(v, r) ==
    IF r.state = "rejected" THEN Failure(r.err, r.command, "", <<>>)
    ELSE CloseOutcome(v, r.stdout, r.stderr, r.code, Undefined)

\* The continuation of `await runCli(...)` in the Gemini and Codex executors
AwaitRun ==
    /\ UsesRunCli(executor)
    /\ call.active
    /\ run.state # "pending"
    /\ result.state = "pending"
    /\ result' = Settle(result, AfterRun(executor, run))
    /\ UNCHANGED <<config, runtime, executor, turn, call, spawned, child, stdout, stderr,
                   nData, run, closeSnap, request, warnings, prev, legacy, pair, stream, log, serverVars>>

-----------------------------------------------------------------------------
(* Spec: sessions of up to MaxTurns calls on one executor, the backend      *)
(* writing a complete output per data event.                                *)

SessionExecuteCli ==
    \E p \in UserPrompts, sp \in SystemPrompts, fp \in FileInputs,
      tid \in ThreadInputs \cup {prev.returned}, m \in ModelsFor(executor) :
        ExecuteCli(p, m, sp, fp, tid, FALSE, MaxTurns)

SessionExecuteApi ==
    \E p \in UserPrompts, sp \in SystemPrompts, fp \in FileInputs,
      tid \in ThreadInputs, m \in ModelsFor(executor) :
        ExecuteApi(p, m, sp, fp, tid, MaxTurns)

\* Each stream is written at most once, before the child closes.
StillOpen == \A i \in 1..Len(child.order) : child.order[i] # "close"

SessionStdout ==
    /\ stdout = <<>>
    /\ StillOpen
    /\ \E c \in WholeOutputs(executor) : ChildStdout(c, MaxChunks)

SessionStderr ==
    /\ stderr = <<>>
    /\ StillOpen
    /\ \E c \in StderrChunks : ChildStderr(c, MaxChunks)

SessionClose == \E code \in {"0", "1"} : ChildClose(code)
SessionRespond == \E c \in Completions : ApiRespond(c)

Next ==
    \/ SessionExecuteCli
    \/ SessionExecuteApi
    \/ SessionStdout
    \/ SessionStderr
    \/ SessionClose
    \/ ChildError
    \/ AwaitRun
    \/ SessionRespond
    \/ ApiReject

Spec == Init /\ [][Next]_vars

-----------------------------------------------------------------------------
(* SpecRun: one call followed event by event, the output arriving in        *)
(* fragments, under every order of the data, 'close' and 'error' events.    *)

RunExecuteCli ==
    \E p \in UserPrompts, sp \in SystemPrompts, tid \in {Undefined, "t1"},
      m \in ModelsFor(executor), throws \in BOOLEAN :
        ExecuteCli(p, m, sp, UndefinedFiles, tid, throws, 1)

RunExecuteApi ==
    \E p \in UserPrompts, sp \in SystemPrompts, m \in ModelsFor(executor) :
        ExecuteApi(p, m, sp, UndefinedFiles, Undefined, 1)

RunStdout == \E c \in Fragments(executor) : ChildStdout(c, MaxChunks)
RunStderr == \E c \in StderrChunks : ChildStderr(c, MaxChunks)
RunClose == \E code \in ExitCodes : ChildClose(code)
RunRespond == \E c \in Completions : ApiRespond(c)

NextRun ==
    \/ RunExecuteCli
    \/ RunExecuteApi
    \/ RunStdout
    \/ RunStderr
    \/ RunClose
    \/ ChildError
    \/ AwaitRun
    \/ RunRespond
    \/ ApiReject

SpecRun == Init /\ [][NextRun]_vars


-----------------------------------------------------------------------------
(* Properties of the argument vector and of the prompt *)

\* The positional prompt: the last argument of every CLI variant
PromptArg(args) == args[Len(args)]

HasPair(args, flag, value) ==
    \E i \in 1..(Len(args) - 1) : args[i] = <<flag>> /\ args[i + 1] = <<value>>

HasArg(args, arg) == \E i \in 1..Len(args) : args[i] = <<arg>>

\* Resume form: Gemini `-r <id>`, Codex `exec resume ... <id> <prompt>`,
\* Cursor and Agent `--resume <id>`
ResumeForm(v, args, id) ==
    CASE v = "gemini" -> HasPair(args, "-r", id)
      [] v = "codex" -> /\ Len(args) >= 4
                        /\ args[1] = <<"exec">>
                        /\ args[2] = <<"resume">>
                        /\ args[Len(args) - 1] = <<id>>
      [] OTHER -> HasPair(args, "--resume", id)

\* Fresh-session form: no resume subcommand or flag
FreshForm(v, args) ==
    CASE v = "gemini" -> ~HasArg(args, "-r")
      [] v = "codex" -> ~HasArg(args, "resume")
      [] OTHER -> ~HasArg(args, "--resume")

Inv_C3_RoundTrip ==
    (executor \in CliVariants /\ call.active /\ spawned.called /\ prev.fresh
        /\ Truthy(prev.returned) /\ call.threadId = prev.returned)
    => /\ ResumeForm(executor, spawned.args, prev.returned)
       /\ ~FreshForm(executor, spawned.args)
       /\ ~Contains(PromptArg(spawned.args), call.systemPrompt)

Wit_C3_SecondTurn ==
    /\ executor = "gemini"
    /\ turn = 2
    /\ prev.fresh
    /\ prev.returned = "t1"
    /\ call.threadId = "t1"
    /\ HasPair(spawned.args, "-r", "t1")

\* Every supplied file is referenced in the text
RefersToAll(text, filePaths) ==
    NoFilePaths(filePaths)
    \/ \A i \in 1..Len(filePaths) : Contains(text, Relative(Cwd, filePaths[i]))

\* C4: for every CLI variant, the prompt of a call with a thread id holds no
\* system prompt and refers to every supplied file; the prompt of a call
\* without one is the system prompt, then the user prompt, then the file
\* references.
Inv_C4_PromptComposition ==
    (executor \in CliVariants /\ call.active /\ spawned.called)
    => LET text == PromptArg(spawned.args)
       IN IF Truthy(call.threadId)
          THEN /\ ~Contains(text, call.systemPrompt)
               /\ RefersToAll(text, call.filePaths)
          ELSE /\ StartsWith(text, call.systemPrompt \o Sep \o call.prompt)
               /\ RefersToAll(SubSeq(text,
                                     Len(call.systemPrompt \o Sep \o call.prompt) + 1,
                                     Len(text)),
                              call.filePaths)

\* The same for the Gemini, Codex and Cursor executors only
Inv_C4_ExceptAgent ==
    executor # "agent" => Inv_C4_PromptComposition

Wit_C4_AgentDropsFiles ==
    /\ executor = "agent"
    /\ call.active
    /\ call.threadId = "t1"
    /\ call.filePaths = <<FileA, FileB>>
    /\ PromptArg(spawned.args) = call.prompt


-----------------------------------------------------------------------------
(* Properties of the outcome of a call *)

\* The first of 'close' and 'error' that the handlers saw, "" before either
FirstEvent == IF child.order = <<>> THEN "" ELSE child.order[1]

HasEvent(e) == \E i \in 1..Len(child.order) : child.order[i] = e

CliCall == executor \in CliVariants /\ call.active

\* The outcome of a settled call is one of: success, spawn error, non-zero
\* exit, parse or no-message error, and it is the one its first event brings.
OneOutcome ==
    (CliCall /\ result.state # "pending")
    => \/ /\ result.state = "fulfilled"
          /\ result.kind = "success"
          /\ FirstEvent = "close"
          /\ closeSnap.code = "0"
       \/ /\ result.state = "rejected"
          /\ result.kind = "spawn"
          /\ FirstEvent = "error"
       \/ /\ result.state = "rejected"
          /\ result.kind = "sync"
          /\ ~child.alive
       \/ /\ result.state = "rejected"
          /\ result.kind \in {"exit", "quota"}
          /\ FirstEvent = "close"
          /\ closeSnap.code # "0"
       \/ /\ result.state = "rejected"
          /\ result.kind \in {"parse", "noresponse", "syntax"}
          /\ FirstEvent = "close"
          /\ closeSnap.code = "0"

\* The first 'close' or 'error' settles the promise its handler holds.
SettledByFirstEvent ==
    (CliCall /\ child.order # <<>>)
    => IF UsesRunCli(executor) THEN run.state # "pending"
       ELSE result.state # "pending"

\* Within a call, a settled promise never changes.
SettledOnce ==
    /\ (result.state # "pending" /\ turn' = turn) => result' = result
    /\ (run.state # "pending" /\ turn' = turn) => run' = run

\* C5: under every order of the 'error', 'close' and data events a call of a
\* CLI executor settles with its first 'close' or 'error', with exactly one of
\* the outcomes success, spawn error, non-zero exit, parse or no-message
\* error, and no later event changes a settled outcome.
Prop_C5_SettlesOnce ==
    /\ [](OneOutcome /\ SettledByFirstEvent)
    /\ [][SettledOnce]_vars

Wit_C5_LateEvents ==
    /\ executor = "codex"
    /\ child.order = <<"close", "error">>
    /\ result.kind = "success"
    /\ stdout # closeSnap.stdout

SpawnFailure(v) == Failure("spawn", Command(v), "", <<>>)

\* What the original statement asks of a child that emitted 'error'
SpawnErrorSurfaced ==
    /\ UsesRunCli(executor) => run = RunRejected("spawn", Command(executor))
    /\ ~UsesRunCli(executor) => result = SpawnFailure(executor)
    /\ result.state # "pending" => result = SpawnFailure(executor)

Inv_C7_NeverRejectsOnExit ==
    (UsesRunCli(executor) /\ call.active)
    => /\ run.state = "rejected" => run.err \in {"spawn", "sync"}
       /\ FirstEvent = "close"
          => run = RunResolved(closeSnap.stdout, closeSnap.stderr, closeSnap.code)
       /\ run.state = "fulfilled"
          => /\ closeSnap.taken
             /\ run.code = closeSnap.code
             /\ run.stderr = closeSnap.stderr
       /\ result.kind \in {"exit", "quota"}
          => /\ run.state = "fulfilled"
             /\ run.code # "0"
             /\ result.kind = "exit" => result.code = CodeOr(run.code)

Wit_C7_ResolvedNonZero ==
    /\ executor = "codex"
    /\ run.state = "fulfilled"
    /\ run.code = "null"
    /\ run.stderr = <<"boom", "\n">>
    /\ result.kind = "exit"
    /\ result.code = "-1"

\* C8: a call that succeeds returns a non-empty response, for the API
\* executor and every CLI executor; exit code 0 without response text, and a
\* completion without content, make the call fail.
Inv_C8_NonEmptyResponse ==
    /\ result.state = "fulfilled"
       => /\ result.response # <<>>
          /\ result.response # NullText
    /\ (CliCall /\ FirstEvent = "close" /\ closeSnap.code = "0"
          /\ result.state # "pending" /\ result.response = <<>>)
       => result.state = "rejected"

Wit_C8_Success ==
    /\ executor = "codex"
    /\ result.state = "fulfilled"
    /\ result.response = <<"hi", "\n", "ok">>


-----------------------------------------------------------------------------
(* createExecutorProvider: the resolver and its caches *)

\* A map that holds its latest entry only
PutAlone(map, k, v) == [x \in {k} |-> v]

\* Map.prototype.set(k, v)
Put(map, k, v) == [x \in DOMAIN map \cup {k} |-> IF x = k THEN v ELSE map[x]]

\* A cache key that leaves the configured mode out
CacheKeyModelOnly(model, cfg) == model

\* cacheKey = model + `-${openaiMode}` for gpt- + `-${geminiMode}` for gemini-
CacheKey(model, cfg) ==
    model
    \o (IF StartsWith(model, <<"gpt-">>) THEN <<"-", cfg.openaiMode>> ELSE <<>>)
    \o (IF StartsWith(model, <<"gemini-">>) THEN <<"-", cfg.geminiMode>> ELSE <<>>)

\* A cache that never finds an entry
NeverHas(cache, key) == FALSE

\* executorCache.has(cacheKey)
Has(cache, key) == key \in DOMAIN cache

\* The API key a client getter requires
ApiKeyOf(client, cfg) ==
    CASE client = "openai" -> cfg.openaiApiKey
      [] client = "deepseek" -> cfg.deepseekApiKey
      [] client = "geminiApi" -> cfg.geminiApiKey
      [] OTHER -> TRUE

\* The environment variable the error of a client getter names
EnvVar(client) ==
    CASE client = "openai" -> <<"OPENAI_API_KEY">>
      [] client = "deepseek" -> <<"DEEPSEEK_API_KEY">>
      [] client = "geminiApi" -> <<"GEMINI_API_KEY">>
      [] OTHER -> <<>>

\* A client cache that never finds an entry
NeverHasClient(clients, client) == FALSE

\* clientCache.has('openai' | 'deepseek' | 'geminiApi')
HasClient(clients, client) == client \in DOMAIN clients

\* A client getter that constructs a client without an API key
ClientNeverThrows(client, cfg, clients) == FALSE

\* getOpenAIClient, getDeepseekClient, getGeminiApiClient: the cached client,
\* or a new one when the API key is configured, or a throw
ClientThrows(client, cfg, clients) ==
    ~HasClient(clients, client) /\ ~ApiKeyOf(client, cfg)

\* A resolver that takes the API branch whatever the mode
ProviderIgnoresMode(model, cfg) ==
    IF StartsWith(model, <<"gpt-">>) THEN [variant |-> "api", client |-> "openai"]
    ELSE IF StartsWith(model, <<"deepseek-">>)
    THEN [variant |-> "api", client |-> "deepseek"]
    ELSE IF StartsWith(model, <<"gemini-">>)
    THEN [variant |-> "api", client |-> "geminiApi"]
    ELSE [variant |-> "", client |-> ""]

\* A resolver that falls back to the OpenAI API for a model it does not know
ProviderWithDefault(model, cfg) ==
    IF StartsWith(model, <<"gpt-">>)
    THEN IF cfg.openaiMode = "cli" THEN [variant |-> "codex", client |-> ""]
         ELSE [variant |-> "api", client |-> "openai"]
    ELSE IF StartsWith(model, <<"deepseek-">>)
    THEN [variant |-> "api", client |-> "deepseek"]
    ELSE IF StartsWith(model, <<"gemini-">>)
    THEN IF cfg.geminiMode = "cli" THEN [variant |-> "gemini", client |-> ""]
         ELSE [variant |-> "api", client |-> "geminiApi"]
    ELSE [variant |-> "api", client |-> "openai"]

\* The branch of the resolver a model takes: an executor variant and the
\* client it is built on
Provider(model, cfg) ==
    IF StartsWith(model, <<"gpt-">>)
    THEN IF cfg.openaiMode = "cli" THEN [variant |-> "codex", client |-> ""]
         ELSE [variant |-> "api", client |-> "openai"]
    ELSE IF StartsWith(model, <<"deepseek-">>)
    THEN [variant |-> "api", client |-> "deepseek"]
    ELSE IF StartsWith(model, <<"gemini-">>)
    THEN IF cfg.geminiMode = "cli" THEN [variant |-> "gemini", client |-> ""]
         ELSE [variant |-> "api", client |-> "geminiApi"]
    ELSE [variant |-> "", client |-> ""]

\* Objects constructed so far under a cache key or for a provider
Count(key) == IF key \in DOMAIN nextId THEN nextId[key] ELSE 0

\* The client an executor of the provider is built on: the cached one, or a
\* new OpenAI(...)
ClientFor(client, clients) ==
    IF client = "" THEN NoClient
    ELSE IF HasClient(clients, client) THEN clients[client]
    ELSE [provider |-> client, instance |-> Count(<<client>>) + 1]

\* getExecutorForModel(model): what it returns or throws, and the caches after
Resolution(model, cfg, cache, clients) ==
    LET cacheKey == CacheKey(model, cfg)
        provider == Provider(model, cfg)
        unchanged == [cache |-> cache, clients |-> clients, created |-> FALSE,
                      newClient |-> ""]
    IN IF Has(cache, cacheKey)
       THEN [threw |-> "", detail |-> <<>>, executor |-> cache[cacheKey]]
            @@ unchanged
       ELSE IF provider.variant = ""
       THEN [threw |-> "provider", detail |-> model, executor |-> NoExecutor]
            @@ unchanged
       ELSE IF provider.client # "" /\ ClientThrows(provider.client, cfg, clients)
       THEN [threw |-> "apikey", detail |-> EnvVar(provider.client),
             executor |-> NoExecutor] @@ unchanged
       ELSE LET client == ClientFor(provider.client, clients)
                new == [key |-> cacheKey, instance |-> Count(cacheKey) + 1,
                        variant |-> provider.variant, client |-> client]
            IN [threw |-> "", detail |-> <<>>, executor |-> new,
                cache |-> Put(cache, cacheKey, new),
                clients |-> IF provider.client = "" THEN clients
                            ELSE Put(clients, provider.client, client),
                created |-> TRUE,
                newClient |-> IF provider.client # ""
                                 /\ ~HasClient(clients, provider.client)
                              THEN provider.client ELSE ""]

\* What the caller has been handed for a model since the configuration last
\* changed: the first executor, the latest one, and whether it asked again
Returned(model, e) ==
    IF model \in DOMAIN resolved
    THEN Put(resolved, model, [first |-> resolved[model].first, last |-> e,
                               again |-> TRUE])
    ELSE Put(resolved, model, [first |-> e, last |-> e, again |-> FALSE])

\* nextId after the constructions of one resolver call
Constructed(model, r) ==
    LET cacheKey == CacheKey(model, config)
        withExecutor == IF r.created
                        THEN Put(nextId, cacheKey, Count(cacheKey) + 1)
                        ELSE nextId
    IN IF r.newClient = "" THEN withExecutor
       ELSE Put(withExecutor, <<r.newClient>>, Count(<<r.newClient>>) + 1)

\* The effect of one call of the resolver on the caches
Resolve(model, r) ==
    /\ r.created => Count(CacheKey(model, config)) < MaxInstances
    /\ r.newClient # "" => Count(<<r.newClient>>) < MaxInstances
    /\ executorCache' = r.cache
    /\ clientCache' = r.clients
    /\ nextId' = Constructed(model, r)
    /\ resolved' = IF r.threw = "" THEN Returned(model, r.executor) ELSE resolved

\* A call of getExecutorForModel from outside the request handler
GetExecutorForModel(model) ==
    /\ Resolve(model, Resolution(model, config, executorCache, clientCache))
    /\ UNCHANGED <<config, execVars, req, effects>>

\* The backend preference of the OpenAI models changes.
SetOpenaiMode(mode) ==
    /\ mode # config.openaiMode
    /\ config' = [config EXCEPT !.openaiMode = mode]
    /\ resolved' = EmptyMap
    /\ UNCHANGED <<execVars, executorCache, clientCache, nextId, req, effects>>

\* The backend preference of the Gemini models changes.
SetGeminiMode(mode) ==
    /\ mode # config.geminiMode
    /\ config' = [config EXCEPT !.geminiMode = mode]
    /\ resolved' = EmptyMap
    /\ UNCHANGED <<execVars, executorCache, clientCache, nextId, req, effects>>


-----------------------------------------------------------------------------
(* handleConsultLlm *)

\* A handler that passes every thread id on to the executor
ThreadNeverRejected(threadId, capabilities) == FALSE

\* if (threadId && !executor.capabilities.supportsThreads) throw ...
ThreadUnsupported(threadId, capabilities) ==
    Truthy(threadId) /\ ~capabilities.supportsThreads

\* getSystemPrompt(isCliMode): the CLI executors get a suffix
SystemPrompt(isCli) ==
    IF isCli THEN <<"SYS", "CLI_MODE_SUFFIX">> ELSE <<"SYS">>

\* buildPrompt(userPrompt, contextFiles, gitDiffOutput): the diff, the files
\* with their contents, the user prompt last, joined by '\n'
BuildPrompt(userPrompt, hasFiles, hasDiff) ==
    (IF hasDiff THEN <<"## Git Diff", "\n", "diff-output", "\n">> ELSE <<>>)
    \o (IF hasFiles
        THEN <<"## Relevant Files", "\n", "### File: a.ts", "\n",
               "content of a.ts", "\n">>
        ELSE <<>>)
    \o userPrompt

\* The prompt for an executor that takes file references: the git diff
\* block, when there is one, and the user prompt
CliPrompt(userPrompt, hasDiff) ==
    (IF hasDiff THEN <<"## Git Diff", "\n", "diff-output", "\n">> ELSE <<>>)
    \o userPrompt

\* A handler that inlines the files whatever the executor can do
InlinesFilesAlways(webMode, capabilities) == TRUE

\* if (web_mode || !executor.capabilities.supportsFileRefs)
InlinesFiles(webMode, capabilities) ==
    webMode \/ ~capabilities.supportsFileRefs

\* From the parsed arguments to `await logPrompt`: resolve the executor,
\* validate the thread id, read the files or keep their paths, generate the
\* git diff, build the prompt.
HandleConsultLlm(model, threadId, webMode, hasFiles, hasDiff) ==
    /\ req.pc \in {"idle", "done"}
    /\ LET r == Resolution(model, config, executorCache, clientCache)
           capabilities == Capabilities(r.executor.variant)
           request0 == [NoReq EXCEPT !.model = model, !.threadId = threadId,
                                     !.webMode = webMode, !.hasFiles = hasFiles,
                                     !.hasDiff = hasDiff,
                                     !.executor = r.executor]
       IN /\ Resolve(model, r)
          /\ IF r.threw # ""
             THEN /\ req' = [request0 EXCEPT !.pc = "done", !.outcome = r.threw,
                                             !.detail = r.detail]
                  /\ effects' = NoEffects
             ELSE IF ThreadUnsupported(threadId, capabilities)
             THEN /\ req' = [request0 EXCEPT !.pc = "done",
                                             !.outcome = "thread-rejected"]
                  /\ effects' = NoEffects
             ELSE /\ req' = [request0 EXCEPT !.pc = "logPrompt"]
                  /\ effects' =
                       [NoEffects EXCEPT
                          !.filesRead =
                              hasFiles /\ InlinesFiles(webMode, capabilities),
                          !.diffGenerated = hasDiff,
                          !.prompt =
                              IF InlinesFiles(webMode, capabilities)
                              THEN BuildPrompt(<<"ask">>, hasFiles, hasDiff)
                              ELSE CliPrompt(<<"ask">>, hasDiff)]
    /\ UNCHANGED <<config, execVars>>

\* The text the web mode copies
FullPrompt(r) ==
    <<"# System Prompt", "\n\n">>
    \o SystemPrompt(Capabilities(r.executor.variant).isCli)
    \o <<"\n\n", "# User Prompt", "\n\n">>
    \o BuildPrompt(<<"ask">>, r.hasFiles, r.hasDiff)

\* A web mode that asks the model when the clipboard cannot be written
AfterClipboardFallsBack(copied) ==
    IF copied THEN [pc |-> "done", outcome |-> "copied", executed |-> FALSE]
    ELSE [pc |-> "queryLlm", outcome |-> "", executed |-> TRUE]

\* `await copyToClipboard(fullPrompt)`: a failed write is rethrown as
\* 'Failed to copy prompt to clipboard: ...', otherwise the handler returns.
AfterClipboard(copied) ==
    [pc |-> "done",
     outcome |-> IF copied THEN "copied" ELSE "clipboard-failed",
     executed |-> FALSE]

\* After `await logPrompt`: in web mode copy the prompt to the clipboard and
\* return; otherwise queryLlm calls executor.execute.
AfterLogPrompt ==
    /\ req.pc = "logPrompt"
    /\ IF req.webMode
       THEN \E copied \in BOOLEAN :
              LET next == AfterClipboard(copied)
              IN /\ req' = [req EXCEPT !.pc = next.pc, !.outcome = next.outcome]
                 /\ effects' = [effects EXCEPT
                                  !.clipboard = copied,
                                  !.clipboardText =
                                      IF copied THEN FullPrompt(req) ELSE <<>>,
                                  !.executed = next.executed]
       ELSE /\ req' = [req EXCEPT !.pc = "queryLlm"]
            /\ effects' = [effects EXCEPT
                             !.executed = TRUE,
                             !.filePathsPassed =
                                 req.hasFiles /\ ~effects.filesRead]
    /\ UNCHANGED <<config, execVars, executorCache, clientCache, nextId, resolved>>

\* After `await queryLlm`: the response, prefixed with the thread id the
\* executor returned, or the executor's error.
AfterQueryLlm(ok, returnedThreadId) ==
    /\ req.pc = "queryLlm"
    /\ req' = [req EXCEPT !.pc = "done",
                          !.outcome = IF ok THEN "answered" ELSE "failed",
                          !.returned = IF ok THEN returnedThreadId ELSE Undefined]
    /\ UNCHANGED <<config, execVars, executorCache, clientCache, nextId, effects,
                   resolved>>

-----------------------------------------------------------------------------
(* SpecResolver: resolver calls, from outside and from requests, between    *)
(* changes of the backend preferences.                                       *)

Modes == {"api", "cli"}

Models ==
    {<<"gpt-", "5.2">>, <<"gpt-", "5.1">>, <<"gemini-", "2.5-pro">>,
     <<"deepseek-", "reasoner">>, <<"o3">>}

\* The handler and the resolver parse no backend output: nothing they do
\* depends on the release.
InitServer ==
    /\ executor = "api"
    /\ runtime = "node18"
    /\ config \in {[DefaultConfig EXCEPT !.openaiApiKey = k] : k \in BOOLEAN}
    /\ ExecInit
    /\ ServerInit

\* The API keys are read from the environment once, at startup.
InitResolver ==
    /\ executor = "api"
    /\ runtime = "node18"
    /\ config \in {[DefaultConfig EXCEPT !.openaiApiKey = k, !.geminiApiKey = g] :
                       k \in BOOLEAN, g \in BOOLEAN}
    /\ ExecInit
    /\ ServerInit

ResolverGet == \E m \in Models : GetExecutorForModel(m)
ResolverSetOpenai == \E mode \in Modes : SetOpenaiMode(mode)
ResolverSetGemini == \E mode \in Modes : SetGeminiMode(mode)
ResolverHandle ==
    \E m \in {<<"gpt-", "5.2">>, <<"o3">>} :
        HandleConsultLlm(m, Undefined, FALSE, FALSE, FALSE)
ResolverReturn == AfterQueryLlm(TRUE, Undefined)

NextResolver ==
    \/ ResolverGet
    \/ ResolverSetOpenai
    \/ ResolverSetGemini
    \/ ResolverHandle
    \/ AfterLogPrompt
    \/ ResolverReturn

SpecResolver == InitResolver /\ [][NextResolver]_vars

-----------------------------------------------------------------------------
(* SpecServer: consult_llm requests with and without thread id, files, git  *)
(* diff and web mode, between changes of the backend preferences.            *)

RequestModels == {<<"gpt-", "5.2">>, <<"gemini-", "2.5-pro">>}
RequestThreads == {Undefined, "", "t1"}

ServerHandle ==
    \E m \in RequestModels, tid \in RequestThreads,
      web \in BOOLEAN, files \in BOOLEAN, diff \in BOOLEAN :
        HandleConsultLlm(m, tid, web, files, diff)

ServerReturn ==
    \E ok \in BOOLEAN, tid \in {Undefined, "t1"} : AfterQueryLlm(ok, tid)

NextServer ==
    \/ ServerHandle
    \/ AfterLogPrompt
    \/ ServerReturn
    \/ ResolverSetOpenai
    \/ ResolverSetGemini

SpecServer == InitServer /\ [][NextServer]_vars


-----------------------------------------------------------------------------
(* Properties of the request handler and of the resolver *)

Rejected == req.pc = "done" /\ req.outcome = "thread-rejected"

LacksThreads ==
    /\ req.pc # "idle"
    /\ req.executor # NoExecutor
    /\ ~Capabilities(req.executor.variant).supportsThreads

\* C1 as amended: a request with a non-empty thread_id whose resolved executor
\* lacks supportsThreads is rejected with the thread_id-not-supported error,
\* and no file was read, no git diff generated, nothing copied to the
\* clipboard and no executor.execute call made for it.
Inv_C1_NonEmptyRejected ==
    (LacksThreads /\ Truthy(req.threadId))
    => /\ Rejected
       /\ effects = NoEffects

Wit_C1_Rejected ==
    /\ Rejected
    /\ req.threadId = "t1"
    /\ req.hasFiles
    /\ req.hasDiff
    /\ req.executor.variant = "api"
    /\ effects = NoEffects

\* C1 as stated: the same for a thread_id of any string value.
Cex_C1_AnyString ==
    (LacksThreads /\ req.threadId # Undefined)
    => /\ Rejected
       /\ effects = NoEffects

\* The variant the configured preference selects for a model
ExpectedVariant(model, cfg) ==
    CASE StartsWith(model, <<"gpt-">>) ->
             IF cfg.openaiMode = "api" THEN "api" ELSE "codex"
      [] StartsWith(model, <<"gemini-">>) ->
             IF cfg.geminiMode = "api" THEN "api" ELSE "gemini"
      [] OTHER -> "api"

\* C9: after any sequence of preference changes and resolver calls, what
\* getExecutorForModel(m) returns is of the variant the current preference of
\* m's provider family selects.
Inv_C9_CurrentPreference ==
    \A m \in DOMAIN resolved :
        /\ resolved[m].first.variant = ExpectedVariant(m, config)
        /\ resolved[m].last.variant = ExpectedVariant(m, config)

Wit_C9_AfterChange ==
    /\ config.openaiMode = "cli"
    /\ Has(executorCache, <<"gpt-", "5.2", "-", "api">>)
    /\ <<"gpt-", "5.2">> \in DOMAIN resolved
    /\ resolved[<<"gpt-", "5.2">>].last.variant = "codex"

\* C10: while the configuration stays fixed, every call of
\* getExecutorForModel(m) returns the instance the first call returned,
\* whatever else was resolved or executed in between.
Inv_C10_SameInstance ==
    \A m \in DOMAIN resolved : resolved[m].last = resolved[m].first

Wit_C10_AskedAgain ==
    /\ <<"gpt-", "5.2">> \in DOMAIN resolved
    /\ resolved[<<"gpt-", "5.2">>].again
    /\ <<"gemini-", "2.5-pro">> \in DOMAIN resolved
    /\ <<"deepseek-", "reasoner">> \in DOMAIN resolved
    /\ req.outcome = "answered"


-----------------------------------------------------------------------------
(* Properties of the caches of the resolver *)

GptApiKey == <<"gpt-", "5.2", "-", "api">>
GptCliKey == <<"gpt-", "5.2", "-", "cli">>

\* C11 as amended: after any change of a family's preference, a lookup for a
\* model of the family finds only an executor created under the family's
\* current preference, or none; every entry sits under the key of the model
\* and the mode it was created for, so entries of the former preference stay
\* in the cache, unreachable until the preference is changed back.
Inv_C11_StaleUnreachable ==
    /\ \A k \in DOMAIN executorCache : executorCache[k].key = k
    /\ \A m \in Models :
          Has(executorCache, CacheKey(m, config))
          => executorCache[CacheKey(m, config)].variant = ExpectedVariant(m, config)

Wit_C11_StaleKept ==
    /\ config.openaiMode = "cli"
    /\ GptApiKey \in DOMAIN executorCache
    /\ GptCliKey \in DOMAIN executorCache
    /\ executorCache[GptApiKey].variant = "api"
    /\ executorCache[GptCliKey].variant = "codex"

\* C11 as stated: the executor cache holds no entry of a family that was
\* created under a preference other than the family's current one.
Cex_C11_Invalidated ==
    \A k \in DOMAIN executorCache :
        executorCache[k].variant = ExpectedVariant(k, config)

\* A model id that matches no provider-family prefix rule
Unknown(model) ==
    /\ ~StartsWith(model, <<"gpt-">>)
    /\ ~StartsWith(model, <<"deepseek-">>)
    /\ ~StartsWith(model, <<"gemini-">>)

CachesUnchanged ==
    UNCHANGED <<executorCache, clientCache, nextId, resolved>>

NoExecutorForUnknown ==
    /\ \A m \in DOMAIN resolved : ~Unknown(m)
    /\ \A k \in DOMAIN executorCache : ~Unknown(k)
    /\ (req.pc # "idle" /\ Unknown(req.model))
       => /\ req.pc = "done"
          /\ req.outcome = "provider"
          /\ req.detail = req.model
          /\ req.executor = NoExecutor
          /\ effects = NoEffects

UnknownLeavesCaches ==
    \A m \in Models :
        (Unknown(m) /\ GetExecutorForModel(m)) => CachesUnchanged

\* C12: for a model id that matches no prefix rule every call of
\* getExecutorForModel throws 'Unable to determine LLM provider for model:
\* <id>', returns no executor, and leaves both caches as they were.
Prop_C12_UnknownModelThrows ==
    /\ []NoExecutorForUnknown
    /\ [][UnknownLeavesCaches]_vars

Wit_C12_Thrown ==
    /\ req.pc = "done"
    /\ req.model = <<"o3">>
    /\ req.outcome = "provider"
    /\ req.detail = <<"o3">>
    /\ GptApiKey \in DOMAIN executorCache

Providers == {"openai", "deepseek", "geminiApi"}

\* C13: at most one client is ever constructed per provider, and every API
\* executor of a provider is built on the client the client cache holds for
\* it; CLI executors have no client.
Inv_C13_OneClientPerProvider ==
    /\ \A p \in Providers : Count(<<p>>) <= 1
    /\ \A p \in DOMAIN clientCache :
          clientCache[p] = [provider |-> p, instance |-> 1]
    /\ \A k \in DOMAIN executorCache :
          LET e == executorCache[k]
          IN IF e.variant = "api"
             THEN /\ e.client.provider \in DOMAIN clientCache
                  /\ e.client = clientCache[e.client.provider]
             ELSE e.client = NoClient

Wit_C13_SharedClient ==
    /\ GptApiKey \in DOMAIN executorCache
    /\ <<"gpt-", "5.1", "-", "api">> \in DOMAIN executorCache
    /\ executorCache[GptApiKey].client = [provider |-> "openai", instance |-> 1]
    /\ executorCache[<<"gpt-", "5.1", "-", "api">>].client
         = executorCache[GptApiKey].client
    /\ Count(<<"openai">>) = 1

\* The provider whose API key a model needs under the api preference
KeyProvider(model) ==
    CASE StartsWith(model, <<"gpt-">>) -> "openai"
      [] StartsWith(model, <<"gemini-">>) -> "geminiApi"
      [] StartsWith(model, <<"deepseek-">>) -> "deepseek"
      [] OTHER -> ""

NeedsMissingKey(model, cfg) ==
    /\ ~Unknown(model)
    /\ ExpectedVariant(model, cfg) = "api"
    /\ ~ApiKeyOf(KeyProvider(model), cfg)

NothingBuiltWithoutKey ==
    /\ \A p \in Providers :
          ~ApiKeyOf(p, config)
          => /\ p \notin DOMAIN clientCache
             /\ Count(<<p>>) = 0
             /\ \A k \in DOMAIN executorCache :
                   executorCache[k].client.provider # p
    /\ req.outcome = "apikey"
       => /\ req.pc = "done"
          /\ req.executor = NoExecutor
          /\ effects = NoEffects
          /\ req.detail = EnvVar(KeyProvider(req.model))
          /\ ~ApiKeyOf(KeyProvider(req.model), config)

ResolveByPreference ==
    \A m \in Models :
        GetExecutorForModel(m)
        => /\ NeedsMissingKey(m, config) => CachesUnchanged
           /\ (~Unknown(m) /\ ExpectedVariant(m, config) # "api")
              => /\ m \in DOMAIN resolved'
                 /\ resolved'[m].last.variant = ExpectedVariant(m, config)
                 /\ resolved'[m].last.client = NoClient

\* C14: with the api preference and the provider's API key absent, the
\* resolver throws an error naming the environment variable, and no executor
\* or client is constructed or cached and no request is made; with the CLI
\* preference it returns the CLI executor whether or not the key is set.
Prop_C14_MissingKeyFailsAtResolve ==
    /\ []NothingBuiltWithoutKey
    /\ [][ResolveByPreference]_vars

Wit_C14_KeyAbsent ==
    /\ ~config.openaiApiKey
    /\ config.openaiMode = "cli"
    /\ req.outcome = "apikey"
    /\ req.detail = <<"OPENAI_API_KEY">>
    /\ <<"gpt-", "5.1">> \in DOMAIN resolved
    /\ resolved[<<"gpt-", "5.1">>].last.variant = "codex"


-----------------------------------------------------------------------------
(* Properties of parseCodexJsonl *)

NewlinesOf(text) == {i \in 1..Len(text) : text[i] = "\n"}

\* Position of the k-th newline of the text; 0 before the first line and
\* Len(text) + 1 after the last
BreakAt(text, k) ==
    IF k = 0 THEN 0
    ELSE IF k > Cardinality(NewlinesOf(text)) THEN Len(text) + 1
    ELSE CHOOSE i \in NewlinesOf(text) :
             Cardinality({j \in NewlinesOf(text) : j < i}) = k - 1

\* The lines of the text, in order
LinesOf(text) ==
    [k \in 1..(Cardinality(NewlinesOf(text)) + 1) |->
        SubSeq(text, BreakAt(text, k - 1) + 1, BreakAt(text, k) - 1)]

\* The text of the line if it is an item.completed event of an agent_message
\* with a non-empty text, <<>> otherwise
AgentMessageOf(line) ==
    LET event == JsonParse(line)
    IN IF /\ event.ok
          /\ ~event.isNull
          /\ Get(event.fields, "type").str = <<"item.completed">>
          /\ Get(event.fields, "item").itype = "agent_message"
       THEN Get(event.fields, "item").str
       ELSE <<>>

\* The thread id of the line if it is a thread.started event, Undefined
\* otherwise
ThreadStartedOf(line) ==
    LET event == JsonParse(line)
    IN IF /\ event.ok
          /\ ~event.isNull
          /\ Get(event.fields, "type").str = <<"thread.started">>
       THEN IdOf(Get(event.fields, "thread_id"))
       ELSE Undefined

NonEmpty(text) == text # <<>>

ExpectedCodex(output) ==
    LET lines == LinesOf(output)
        started == {k \in 1..Len(lines) : Truthy(ThreadStartedOf(lines[k]))}
    IN [threadId |-> IF started = {} THEN Undefined
                     ELSE ThreadStartedOf(lines[CHOOSE k \in started :
                                                   \A j \in started : j <= k]),
        response |-> Join(SelectSeq([k \in 1..Len(lines) |-> AgentMessageOf(lines[k])],
                                    NonEmpty),
                          <<"\n">>)]

\* C15: for every stdout text parseCodexJsonl returns the texts of the
\* agent_message item.completed events with a non-empty text, joined by '\n'
\* in line order, and the thread_id of the thread.started event; blank lines,
\* lines that are not JSON and other events change nothing.
Inv_C15_ParseCodexJsonl ==
    executor = "codex" => ParseCodexJsonl(stdout) = ExpectedCodex(stdout)

Wit_C15_TwoMessages ==
    /\ executor = "codex"
    /\ Contains(stdout, <<"x">>)
    /\ Contains(stdout, <<"item=rs:hm">>)
    /\ ParseCodexJsonl(stdout).response = <<"hi", "\n", "ok">>


-----------------------------------------------------------------------------
(* Properties of the Gemini executor's failures *)

GeminiClosed ==
    /\ executor = "gemini"
    /\ call.active
    /\ FirstEvent = "close"
    /\ result.state # "pending"

QuotaText == <<"RESOURCE_EXHAUSTED">>

\* C16: a Gemini call whose process exits non-zero fails with the quota error
\* exactly when stderr contains 'RESOURCE_EXHAUSTED', otherwise with the
\* exit-code error; both carry the trimmed stderr, a call never gets both,
\* and exit code 0 never gives the quota error.
Inv_C16_QuotaOrExit ==
    GeminiClosed
    => /\ (closeSnap.code # "0" /\ Contains(closeSnap.stderr, QuotaText))
          => result = Failure("quota", "gemini", closeSnap.code,
                              Trim(closeSnap.stderr))
       /\ (closeSnap.code # "0" /\ ~Contains(closeSnap.stderr, QuotaText))
          => result = Failure("exit", "gemini", CodeOr(closeSnap.code),
                              Trim(closeSnap.stderr))
       /\ closeSnap.code = "0" => result.kind \notin {"quota", "exit"}

Wit_C16_QuotaExceeded ==
    /\ GeminiClosed
    /\ closeSnap.code = "1"
    /\ result.kind = "quota"
    /\ result.detail = <<"boom", "\n", "RESOURCE_EXHAUSTED">>

Wit_C16_PlainExit ==
    /\ GeminiClosed
    /\ closeSnap.code = "1"
    /\ result.kind = "exit"
    /\ result.detail = <<"boom">>


-----------------------------------------------------------------------------
(* Properties of the parse failures of the single-document executors *)

\* A Gemini or Cursor call whose process closed with code 0 over a stdout
\* that is not a JSON document
ClosedOnInvalidJson ==
    /\ executor \in {"gemini", "cursor"}
    /\ call.active
    /\ FirstEvent = "close"
    /\ closeSnap.code = "0"
    /\ ~JsonParse(closeSnap.stdout).ok
    /\ result.state # "pending"

FailedToParse ==
    /\ result = Failure("parse", Command(executor), "0", Slice(closeSnap.stdout))
    /\ Len(result.detail) <= SliceLimit
    /\ \A i \in 1..Len(result.detail) : result.detail[i] = closeSnap.stdout[i]

\* C17: a Gemini or Cursor call whose process exits with code 0 and a stdout
\* that is not a JSON document fails with the 'Failed to parse ... JSON
\* output' error, which carries the first 200 characters of stdout at most.
Inv_C17_FailedToParseTruncated == ClosedOnInvalidJson => FailedToParse

\* The same, except for the stdout whose SyntaxError message holds the words
\* 'No response': the Gemini executor rethrows that SyntaxError as it is.
Inv_C17_ExceptRethrown ==
    (ClosedOnInvalidJson
        /\ ~(executor = "gemini"
             /\ Contains(ParseErrorMessage(closeSnap.stdout), <<"No response">>)))
    => FailedToParse

Wit_C17_SyntaxErrorRethrown ==
    /\ executor = "gemini"
    /\ runtime = "node20"
    /\ FirstEvent = "close"
    /\ closeSnap.code = "0"
    /\ closeSnap.stdout = <<"No response", "\n">>
    /\ result.state = "rejected"
    /\ result.kind = "syntax"

Wit_C17_Truncated ==
    /\ ClosedOnInvalidJson
    /\ executor = "cursor"
    /\ Len(closeSnap.stdout) > SliceLimit
    /\ result.kind = "parse"
    /\ Len(result.detail) = SliceLimit


-----------------------------------------------------------------------------
(* queryLlm and the end of handleConsultLlm, as functions of the settled    *)
(* promise of executor.execute                                              *)

\* A queryLlm that catches the executor's error and answers with its text
QueryLlmSwallows(r) ==
    IF r.state = "rejected"
    THEN [state |-> "fulfilled", response |-> r.detail,
          costInfo |-> "unavailable", threadId |-> Undefined]
    ELSE [state |-> "fulfilled", response |-> r.response,
          costInfo |-> IF r.usage = "usage" THEN "cost" ELSE "unavailable",
          threadId |-> r.threadId]

\* queryLlm: `await executor.execute(...)` rethrows a rejection as it is; an
\* empty response is an error; the cost is computed when usage is given.
QueryLlm(r) ==
    IF r.state = "rejected" THEN r
    ELSE IF ~TruthyText(r.response)
    THEN Failure("query-empty", "", "", <<>>)
    ELSE [state |-> "fulfilled", response |-> r.response,
          costInfo |-> IF r.usage = "usage" THEN "cost" ELSE "unavailable",
          threadId |-> r.threadId]

\* A handler that prefixes whatever thread id field the result has
HandlerReturnAnyId(q) ==
    IF q.state = "rejected" THEN q
    ELSE [state |-> "fulfilled",
          text |-> IF q.threadId # Undefined
                   THEN <<"[thread_id:", q.threadId, "]", "\n\n">> \o q.response
                   ELSE q.response]

\* handleConsultLlm from `await queryLlm(...)` on: a rejection is rethrown,
\* a thread id the executor returned is put before the response.
HandlerReturn(q) ==
    IF q.state = "rejected" THEN q
    ELSE [state |-> "fulfilled",
          text |-> IF Truthy(q.threadId)
                   THEN <<"[thread_id:", q.threadId, "]", "\n\n">> \o q.response
                   ELSE q.response]

\* A process is spawned, and a request is issued, only by the step that
\* starts an execute call.
OneAttemptPerCall ==
    (spawned' # spawned \/ request' # request \/ (child'.alive /\ ~child.alive))
    => turn' = turn + 1

\* A failed call reaches the caller of handleConsultLlm as the same error.
FailurePropagated ==
    (call.active /\ result.state = "rejected")
    => /\ QueryLlm(result) = result
       /\ HandlerReturn(QueryLlm(result)) = result

\* C18: an execute call makes one backend attempt at most (one spawn, or one
\* chat-completion request), and a failure of the attempt reaches the caller
\* of handleConsultLlm through queryLlm as the same error: it is not retried
\* and not turned into a result.
Prop_C18_OneAttemptPropagated ==
    /\ []FailurePropagated
    /\ [][OneAttemptPerCall]_vars
    /\ [][(call.active /\ result.state = "rejected" /\ turn' = turn)
            => result' = result]_vars

Wit_C18_FailedOnce ==
    /\ executor = "codex"
    /\ turn = 1
    /\ spawned.called
    /\ closeSnap.code = "1"
    /\ result.kind = "exit"
    /\ HandlerReturn(QueryLlm(result)).state = "rejected"


-----------------------------------------------------------------------------
(* Properties of the result record *)

\* C19: a result of a CLI executor has usage = null, a result of the API
\* executor has no thread id, and no executor whose capabilities say
\* supportsThreads = false returns a thread id.
Inv_C19_UsageAndThread ==
    (call.active /\ result.state = "fulfilled")
    => /\ Capabilities(executor).isCli => result.usage = "null"
       /\ executor = "api" => result.threadId = Undefined
       /\ ~Capabilities(executor).supportsThreads => result.threadId = Undefined

Wit_C19_ApiAskedWithThread ==
    /\ executor = "api"
    /\ call.threadId = "t1"
    /\ result.state = "fulfilled"
    /\ result.usage = "usage"
    /\ result.threadId = Undefined

Wit_C19_CliWithThread ==
    /\ executor = "gemini"
    /\ result.state = "fulfilled"
    /\ result.usage = "null"
    /\ result.threadId = "t1"


-----------------------------------------------------------------------------
(* Properties of the API executor's request *)

ApiCall == executor = "api" /\ call.active

HasFilePaths == call.filePaths # UndefinedFiles /\ Len(call.filePaths) > 0

\* C20: whatever filePaths the API executor is called with, the request it
\* issues is the one of the call without filePaths: the model of the call and
\* two messages, the system prompt then the user prompt; the call fails only
\* as a call without files does, and it warns once exactly when filePaths is
\* not empty.
Inv_C20_FilesIgnored ==
    ApiCall
    => /\ request = ApiRequest(call.prompt, call.model, call.systemPrompt,
                               UndefinedFiles)
       /\ request.sent
       /\ request.model = call.model
       /\ request.messages = <<[role |-> "system", content |-> call.systemPrompt],
                               [role |-> "user", content |-> call.prompt]>>
       /\ warnings = IF HasFilePaths THEN 1 ELSE 0
       /\ result.state = "rejected" => result.kind \in {"api-empty", "api-error"}

Wit_C20_WarnedAndAnswered ==
    /\ ApiCall
    /\ call.filePaths = <<FileA, FileB>>
    /\ warnings = 1
    /\ Len(request.messages) = 2
    /\ result.state = "fulfilled"

Wit_C20_EmptyListNoWarning ==
    /\ ApiCall
    /\ call.filePaths = <<>>
    /\ warnings = 0
    /\ result.state = "fulfilled"


-----------------------------------------------------------------------------
(* An empty filePaths array and a missing filePaths argument *)

\* What spawn() gets from the call in flight had filePaths been undefined
SpawnWithoutFiles ==
    [called |-> TRUE, command |-> Command(executor),
     args |-> BuildArgs(executor, call.model,
                        Message(executor, call.prompt, call.systemPrompt,
                                UndefinedFiles, call.threadId),
                        call.threadId, config.codexReasoningEffort)]

\* C21: a call with filePaths = [] spawns the argument vector, or issues the
\* request, of the same call with filePaths undefined, warns as little, and
\* its result is the one the backend's output gives.
Inv_C21_EmptyLikeUndefined ==
    (call.active /\ call.filePaths = <<>>)
    => /\ executor \in CliVariants => spawned = SpawnWithoutFiles
       /\ executor = "api"
          => /\ request = ApiRequest(call.prompt, call.model, call.systemPrompt,
                                     UndefinedFiles)
             /\ warnings = ApiWarnings(UndefinedFiles)
             /\ warnings = 0
       /\ (executor \in CliVariants /\ FirstEvent = "close"
             /\ result.state # "pending")
          => result = CloseOutcome(executor, closeSnap.stdout, closeSnap.stderr,
                                   closeSnap.code, call.threadId)

Wit_C21_EmptyArray ==
    /\ executor = "cursor"
    /\ call.filePaths = <<>>
    /\ call.threadId = "t1"
    /\ spawned = SpawnWithoutFiles
    /\ result.state = "fulfilled"


-----------------------------------------------------------------------------
(* The text handleConsultLlm returns *)

\* The text returned for the call in flight, once it has succeeded
ReturnedText == HandlerReturn(QueryLlm(result)).text

Prefixed(text) == Len(text) >= 4 /\ text[1] = "[thread_id:"

\* The executor returned a thread id: a non-empty string
ReturnedThreadId == result.threadId \notin {Undefined, ""}

\* C22: the text handleConsultLlm returns for a successful call is
\* '[thread_id:<id>]\n\n<response>' exactly when the executor returned a
\* thread id, <id> being that id, and the bare response otherwise.
Inv_C22_ThreadPrefix ==
    (call.active /\ result.state = "fulfilled")
    => /\ HandlerReturn(QueryLlm(result)).state = "fulfilled"
       /\ Prefixed(ReturnedText) <=> ReturnedThreadId
       /\ ReturnedThreadId
          => ReturnedText = <<"[thread_id:", result.threadId, "]", "\n\n">>
                               \o result.response
       /\ ~ReturnedThreadId => ReturnedText = result.response

Wit_C22_Prefixed ==
    /\ executor = "gemini"
    /\ result.state = "fulfilled"
    /\ ReturnedText = <<"[thread_id:", "t1", "]", "\n\n", "hi">>

Wit_C22_Bare ==
    /\ executor = "cursor"
    /\ result.state = "fulfilled"
    /\ result.threadId = ""
    /\ ReturnedText = <<"ok">>


-----------------------------------------------------------------------------
(* Properties of the web mode *)

WebRequest == req.pc # "idle" /\ req.webMode

\* The text of a web request: both headings, the system prompt of the
\* resolved executor, and the user prompt after the diff and the file contents
ComposedText ==
    <<"# System Prompt", "\n\n">>
    \o (IF req.executor.variant = "api" THEN <<"SYS">>
        ELSE <<"SYS", "CLI_MODE_SUFFIX">>)
    \o <<"\n\n", "# User Prompt", "\n\n">>
    \o (IF req.hasDiff THEN <<"## Git Diff", "\n", "diff-output", "\n">>
        ELSE <<>>)
    \o (IF req.hasFiles
        THEN <<"## Relevant Files", "\n", "### File: a.ts", "\n",
               "content of a.ts", "\n">>
        ELSE <<>>)
    \o <<"ask">>

Wit_C23_ClipboardFailed ==
    /\ WebRequest
    /\ req.pc = "done"
    /\ req.outcome = "clipboard-failed"
    /\ ~effects.executed


\* How a web request for the model ends when the clipboard can be written:
\* with the resolver's error, with the thread_id error, or with the text copied
WebEnd(model, threadId, hasFiles, hasDiff) ==
    LET r == Resolution(model, config, executorCache, clientCache)
    IN IF r.threw # ""
       THEN [outcome |-> r.threw, detail |-> r.detail, text |-> <<>>]
       ELSE IF ThreadUnsupported(threadId, Capabilities(r.executor.variant))
       THEN [outcome |-> "thread-rejected", detail |-> <<>>, text |-> <<>>]
       ELSE [outcome |-> "copied", detail |-> <<>>,
             text |-> FullPrompt([executor |-> r.executor, hasFiles |-> hasFiles,
                                  hasDiff |-> hasDiff])]

\* The step is handleConsultLlm taking up a web request
TakesWebRequest ==
    /\ req.pc \in {"idle", "done"}
    /\ req'.pc \in {"logPrompt", "done"}
    /\ req' # req
    /\ req'.webMode

\* C24: with web_mode = true the model is ignored: a request for any other
\* model, under the same configuration and keys, ends the same way (copied,
\* or the same error) and copies the same text.
Prop_C24_ModelIgnored ==
    [][TakesWebRequest
        => \A other \in RequestModels :
              WebEnd(other, req'.threadId, req'.hasFiles, req'.hasDiff)
              = WebEnd(req'.model, req'.threadId, req'.hasFiles, req'.hasDiff)]_vars

\* Two web requests on models of the same resolved variant end the same way.
Prop_C24_SameVariant ==
    [][TakesWebRequest
        => \A other \in RequestModels :
              LET a == Resolution(other, config, executorCache, clientCache)
                  b == Resolution(req'.model, config, executorCache, clientCache)
              IN (a.threw = "" /\ b.threw = ""
                    /\ a.executor.variant = b.executor.variant)
                 => WebEnd(other, req'.threadId, req'.hasFiles, req'.hasDiff)
                    = WebEnd(req'.model, req'.threadId, req'.hasFiles,
                             req'.hasDiff)]_vars

Wit_C24_KeyMissingForModel ==
    /\ WebRequest
    /\ req.pc = "done"
    /\ req.model = <<"gpt-", "5.2">>
    /\ req.outcome = "apikey"
    /\ ~effects.clipboard
    /\ WebEnd(<<"gemini-", "2.5-pro">>, req.threadId, req.hasFiles,
              req.hasDiff).outcome = "copied"

Wit_C24_TextDependsOnModel ==
    /\ WebRequest
    /\ req.outcome = "copied"
    /\ req.model = <<"gpt-", "5.2">>
    /\ req.executor.variant = "codex"
    /\ WebEnd(<<"gemini-", "2.5-pro">>, req.threadId, req.hasFiles,
              req.hasDiff).outcome = "copied"
    /\ WebEnd(<<"gemini-", "2.5-pro">>, req.threadId, req.hasFiles,
              req.hasDiff).text # effects.clipboardText


-----------------------------------------------------------------------------
(* The external processes a request starts *)

\* spawn(command, args, { shell: false, stdio: [...] })
SpawnedProcess(s) == [shell |-> FALSE, command |-> <<s.command>>, args |-> s.args]

\* The git_diff argument of the requests that carry one
DiffBaseRef == <<"HEAD">>
DiffFiles == << <<"a.ts">>, <<"b.ts">> >>

\* generateGitDiff: execSync(`git diff ${baseRef} -- ${files.join(' ')}`, ...)
\* hands one string to the shell
GitDiffProcess(baseRef, files) ==
    [shell |-> TRUE,
     command |-> <<"git diff ">> \o baseRef \o <<" -- ">> \o Join(files, <<" ">>),
     args |-> <<>>]

ProcessesStarted ==
    (IF spawned.called THEN {SpawnedProcess(spawned)} ELSE {})
    \cup (IF effects.diffGenerated
          THEN {GitDiffProcess(DiffBaseRef, DiffFiles)} ELSE {})

\* C25: every external process started for a request is started from an
\* argument vector with shell interpretation disabled; no string holding
\* content of the caller goes to a shell.
Inv_C25_NoShell == \A p \in ProcessesStarted : ~p.shell

\* The same for every process but the one generateGitDiff starts.
Inv_C25_ExceptGitDiff ==
    \A p \in ProcessesStarted :
        p.shell => p = GitDiffProcess(DiffBaseRef, DiffFiles)

Wit_C25_GitDiffThroughShell ==
    /\ req.hasDiff
    /\ effects.diffGenerated
    /\ \E p \in ProcessesStarted :
          /\ p.shell
          /\ Contains(p.command, DiffBaseRef)
          /\ Contains(p.command, <<"a.ts">>)


-----------------------------------------------------------------------------
(* SpecSettle: one call of a CLI executor whose child writes at most one    *)
(* chunk; a spawned child emits 'close' or 'error' at some time, and the    *)
(* continuation of an await is run.                                         *)

InitSettle == Init /\ executor \in CliVariants

SettleStdout == \E c \in WholeOutputs(executor) : ChildStdout(c, 1)
SettleStderr == \E c \in StderrChunks : ChildStderr(c, 1)

NextSettle ==
    \/ RunExecuteCli
    \/ SettleStdout
    \/ SettleStderr
    \/ RunClose
    \/ ChildError
    \/ AwaitRun

\* The run without the assumption on the child
SpecSettleUnfair == InitSettle /\ [][NextSettle]_vars

FirstChildEvent == (RunClose \/ ChildError) /\ child.order = <<>>

\* The guard of AwaitRun
AwaitEnabled ==
    /\ UsesRunCli(executor)
    /\ call.active
    /\ run.state # "pending"
    /\ result.state = "pending"

\* Weak fairness of the child's first event and, written out by its
\* definition, of AwaitRun: the event loop runs the continuation of a settled
\* await.
SpecSettle ==
    /\ SpecSettleUnfair
    /\ WF_vars(FirstChildEvent)
    /\ (([]<>~AwaitEnabled) \/ ([]<><<AwaitRun>>_vars))

ChildRunning == CliCall /\ child.alive

\* With a child running, the promise of runCli, and of the executors that
\* spawn themselves, changes only in the step of a 'close' or 'error' event.
SettlesOnlyByChildEvent ==
    (ChildRunning /\ (run' # run \/ (~UsesRunCli(executor) /\ result' # result)))
    => /\ Len(child'.order) = Len(child.order) + 1
       /\ child'.order[Len(child'.order)] \in {"close", "error"}

\* Nothing but the child itself ends the child.
NeverKilled == child.alive => child'.alive

\* C26: runCli settles only through the 'close' or 'error' event of its
\* child: no timer settles it and the child is never killed; if every spawned
\* child closes or errors at some time, every run and every call of a CLI
\* executor settles.
Prop_C26_SettlesWithChild ==
    /\ [][SettlesOnlyByChildEvent]_vars
    /\ [][NeverKilled]_vars
    /\ (ChildRunning ~> (result.state # "pending"))

\* Without the assumption on the child a run can stay pending for ever.
Prop_C26_AlwaysSettles == ChildRunning ~> (result.state # "pending")

Wit_C26_SettledByClose ==
    /\ executor = "gemini"
    /\ child.order = <<"close">>
    /\ nData = 1
    /\ run.state = "fulfilled"
    /\ result.state # "pending"


-----------------------------------------------------------------------------
(* The legacy generic CLI executor, createCliExecutor: one call with its    *)
(* 5-minute timer                                                           *)

LegacyClis == {"gemini", "codex"}

\* cliConfig.handleNonZeroExit(code ?? -1, stderr)
HandleNonZeroExit(cli, code, err) ==
    IF cli = "gemini" /\ Contains(err, <<"RESOURCE_EXHAUSTED">>)
    THEN Failure("quota", cli, CodeOr(code), Trim(err))
    ELSE Failure("exit", cli, CodeOr(code), Trim(err))

\* A 'close' handler that leaves the timer armed
LegacyOnCloseKeepsTimer(l, code) ==
    [l EXCEPT !.hasResponded = TRUE,
              !.order = Append(@, "close"),
              !.promise = Settle(@, IF code = "0"
                                    THEN Success(Trim(l.stdout), Undefined, "null")
                                    ELSE HandleNonZeroExit(l.cli, code, l.stderr))]

\* child.on('close'): hasResponded = true, clearTimeout, then resolve with
\* the trimmed stdout or reject with the exit error
LegacyOnClose(l, code) ==
    [l EXCEPT !.hasResponded = TRUE,
              !.timer = IF @ = "armed" THEN "cleared" ELSE @,
              !.order = Append(@, "close"),
              !.promise = Settle(@, IF code = "0"
                                    THEN Success(Trim(l.stdout), Undefined, "null")
                                    ELSE HandleNonZeroExit(l.cli, code, l.stderr))]

\* child.on('error'): hasResponded = true, clearTimeout, reject
LegacyOnError(l) ==
    [l EXCEPT !.hasResponded = TRUE,
              !.timer = IF @ = "armed" THEN "cleared" ELSE @,
              !.order = Append(@, "error"),
              !.promise = Settle(@, Failure("spawn", l.cli, "", <<>>))]

\* The callback of setTimeout(..., 5 * 60 * 1000)
LegacyOnTimeout(l) ==
    IF ~l.hasResponded
    THEN [l EXCEPT !.timer = "fired",
                   !.killed = TRUE,
                   !.order = Append(@, "timeout"),
                   !.promise = Settle(@, Failure("timeout", l.cli, "", <<>>))]
    ELSE [l EXCEPT !.timer = "fired", !.order = Append(@, "timeout")]

LegacyFrame == UNCHANGED <<config, runtime, executor, turn, call, spawned, child,
                           stdout, stderr, nData, run, result, closeSnap,
                           request, warnings, prev, pair, stream, log, serverVars>>

\* execute: spawn the CLI and arm the timer; `throws` is spawn() throwing
LegacyExecute(cli, throws) ==
    /\ ~legacy.active
    /\ legacy' = IF throws
                 THEN [NoLegacy EXCEPT !.active = TRUE, !.cli = cli,
                                       !.promise = Failure("sync", cli, "", <<>>)]
                 ELSE [NoLegacy EXCEPT !.active = TRUE, !.cli = cli,
                                       !.timer = "armed"]
    /\ LegacyFrame

LegacySpawned == legacy.active /\ legacy.timer # "none"

LegacyStdout(chunk) ==
    /\ LegacySpawned
    /\ Len(legacy.stdout) + Len(legacy.stderr) < MaxChunks
    /\ legacy' = [legacy EXCEPT !.stdout = @ \o chunk]
    /\ LegacyFrame

LegacyStderr(chunk) ==
    /\ LegacySpawned
    /\ Len(legacy.stdout) + Len(legacy.stderr) < MaxChunks
    /\ legacy' = [legacy EXCEPT !.stderr = @ \o chunk]
    /\ LegacyFrame

LegacyClose(code) ==
    /\ LegacySpawned
    /\ \A i \in 1..Len(legacy.order) : legacy.order[i] # "close"
    /\ legacy' = LegacyOnClose(legacy, code)
    /\ LegacyFrame

LegacyError ==
    /\ LegacySpawned
    /\ \A i \in 1..Len(legacy.order) : legacy.order[i] # "error"
    /\ legacy' = LegacyOnError(legacy)
    /\ LegacyFrame

\* Five minutes have passed and the timer was not cleared.
LegacyTimeout ==
    /\ LegacySpawned
    /\ legacy.timer = "armed"
    /\ legacy' = LegacyOnTimeout(legacy)
    /\ LegacyFrame

LegacyStart == \E cli \in LegacyClis, throws \in BOOLEAN : LegacyExecute(cli, throws)
LegacyOut == \E c \in {<<"hi">>, <<" ">>} : LegacyStdout(c)
LegacyErr == \E c \in {<<"boom">>, <<"RESOURCE_EXHAUSTED">>} : LegacyStderr(c)
LegacyExit == \E code \in ExitCodes : LegacyClose(code)

NextLegacy ==
    \/ LegacyStart
    \/ LegacyOut
    \/ LegacyErr
    \/ LegacyExit
    \/ LegacyError
    \/ LegacyTimeout

SpecLegacy == Init /\ [][NextLegacy]_vars

LegacyFirst == IF legacy.order = <<>> THEN "" ELSE legacy.order[1]

TimedOut == Failure("timeout", legacy.cli, "", <<>>)

\* C27: when the timer of a createCliExecutor call fires before the child
\* has closed or errored, the call is rejected with the timed-out error and
\* the child is killed; when the child closes or errors first, the timer is
\* cancelled and the child is never killed; a 'close' after the timeout
\* leaves the rejection as it is.
Prop_C27_TimeoutOrChild ==
    /\ [](LegacyFirst = "timeout"
            => /\ legacy.promise = TimedOut
               /\ legacy.killed
               /\ legacy.timer = "fired")
    /\ [](LegacyFirst \in {"close", "error"}
            => /\ legacy.timer = "cleared"
               /\ ~legacy.killed
               /\ legacy.promise # TimedOut
               /\ legacy.promise.state # "pending")
    /\ [](legacy.killed => LegacyFirst = "timeout")
    /\ [][legacy.promise.state # "pending" => legacy'.promise = legacy.promise]_vars

Wit_C27_CloseAfterTimeout ==
    /\ legacy.order = <<"timeout", "close">>
    /\ legacy.killed
    /\ legacy.stdout = <<"hi">>
    /\ legacy.promise = TimedOut

Wit_C27_ClosedFirst ==
    /\ legacy.order = <<"close">>
    /\ legacy.timer = "cleared"
    /\ legacy.promise.state = "fulfilled"


-----------------------------------------------------------------------------
(* The caches of createExecutorProvider over the lifetime of the process *)

\* One step keeps every entry of both caches, with the capabilities of the
\* executor it holds
CachesKeep ==
    /\ \A k \in DOMAIN executorCache :
          /\ k \in DOMAIN executorCache'
          /\ executorCache'[k] = executorCache[k]
          /\ Capabilities(executorCache'[k].variant)
               = Capabilities(executorCache[k].variant)
    /\ \A p \in DOMAIN clientCache :
          /\ p \in DOMAIN clientCache'
          /\ clientCache'[p] = clientCache[p]

\* C28: an entry of the executor cache and a client of the client cache,
\* once there, are never replaced or removed, whatever resolver calls,
\* requests and changes of the backend preference follow, and the
\* capabilities of a cached executor stay what they were.
Prop_C28_CachesOnlyGrow == [][CachesKeep]_vars

Wit_C28_KeptAcrossModeChange ==
    /\ GptApiKey \in DOMAIN executorCache
    /\ GptCliKey \in DOMAIN executorCache
    /\ <<"gemini-", "2.5-pro", "-", "api">> \in DOMAIN executorCache
    /\ DOMAIN clientCache = {"openai", "geminiApi"}
    /\ executorCache[GptApiKey].instance = 1
    /\ config.openaiMode = "cli"
    /\ <<"gpt-", "5.2">> \in DOMAIN resolved
    /\ resolved[<<"gpt-", "5.2">>].again


-----------------------------------------------------------------------------
(* Two calls of execute in flight at the same time, on executors built on   *)
(* runCli                                                                    *)

\* A runner whose stdout and stderr accumulators are module-level variables
BufferShared(i) == 1

\* `let stdout = ''` and `let stderr = ''` inside the promise executor of
\* runCli: every call has accumulators of its own
BufferOf(i) == i

PairFrame == UNCHANGED <<config, runtime, executor, turn, call, spawned, child,
                         stdout, stderr, nData, run, result, closeSnap,
                         request, warnings, prev, legacy, stream, log, serverVars>>

PairOpen(i) ==
    /\ pair.calls[i].active
    /\ \A n \in 1..Len(pair.calls[i].order) : pair.calls[i].order[n] # "close"

\* execute on an executor of variant v: runCli spawns the child
PairExecute(i, v) ==
    /\ ~pair.calls[i].active
    /\ pair' = [pair EXCEPT !.calls[i] = [NoSlot EXCEPT !.active = TRUE,
                                                        !.variant = v],
                            !.buffers[BufferOf(i)] = NoBuffer]
    /\ PairFrame

\* 'data' on the stdout of the child of call i
PairStdout(i, chunk) ==
    /\ PairOpen(i)
    /\ pair.calls[i].wrote = <<>>
    /\ pair' = [pair EXCEPT !.calls[i].wrote = @ \o chunk,
                            !.buffers[BufferOf(i)].stdout = @ \o chunk]
    /\ PairFrame

\* 'data' on the stderr of the child of call i
PairStderr(i, chunk) ==
    /\ PairOpen(i)
    /\ pair.calls[i].wroteErr = <<>>
    /\ pair' = [pair EXCEPT !.calls[i].wroteErr = @ \o chunk,
                            !.buffers[BufferOf(i)].stderr = @ \o chunk]
    /\ PairFrame

\* 'close' of the child of call i
PairClose(i, code) ==
    /\ PairOpen(i)
    /\ LET c == pair.calls[i]
           b == pair.buffers[BufferOf(i)]
       IN pair' = [pair EXCEPT
                     !.calls[i].order = Append(@, "close"),
                     !.calls[i].snap = [taken |-> TRUE, stdout |-> c.wrote,
                                        stderr |-> c.wroteErr, code |-> code],
                     !.calls[i].run = Settle(@, RunCliOnClose(b.stdout, b.stderr,
                                                              code))]
    /\ PairFrame

\* 'error' of the child of call i
PairError(i) ==
    /\ pair.calls[i].active
    /\ \A n \in 1..Len(pair.calls[i].order) : pair.calls[i].order[n] # "error"
    /\ pair' = [pair EXCEPT
                  !.calls[i].order = Append(@, "error"),
                  !.calls[i].run = Settle(@, RunCliOnError(Command(pair.calls[i].variant)))]
    /\ PairFrame

\* The continuation of `await runCli(...)` of call i
PairAwait(i) ==
    /\ pair.calls[i].active
    /\ pair.calls[i].run.state # "pending"
    /\ pair.calls[i].result.state = "pending"
    /\ pair' = [pair EXCEPT
                  !.calls[i].result = AfterRun(pair.calls[i].variant,
                                               pair.calls[i].run)]
    /\ PairFrame

InitPair ==
    /\ executor = "codex"
    /\ runtime = "node18"
    /\ config = DefaultConfig
    /\ ExecInit
    /\ ServerInit

PairStart == \E i \in Slots, v \in {"gemini", "codex"} : PairExecute(i, v)
PairOut == \E i \in Slots : \E c \in WholeOutputs(pair.calls[i].variant) : PairStdout(i, c)
PairErr == \E i \in Slots, c \in StderrChunks : PairStderr(i, c)
PairExit == \E i \in Slots, code \in ExitCodes : PairClose(i, code)
PairFail == \E i \in Slots : PairError(i)
PairContinue == \E i \in Slots : PairAwait(i)

NextPair ==
    \/ PairStart
    \/ PairOut
    \/ PairErr
    \/ PairExit
    \/ PairFail
    \/ PairContinue

SpecPair == InitPair /\ [][NextPair]_vars

\* What the own child of call i did: its events and what it wrote
OwnChild(i) ==
    <<pair.calls[i].wrote, pair.calls[i].wroteErr, pair.calls[i].order,
      pair.calls[i].snap>>

\* The outcome of call i as its own child's first event alone determines it
OwnOutcome(i) ==
    LET c == pair.calls[i]
    IN IF c.order[1] = "error"
       THEN Failure("spawn", Command(c.variant), "", <<>>)
       ELSE CloseOutcome(c.variant, c.snap.stdout, c.snap.stderr, c.snap.code,
                         Undefined)

SettledFromOwnChild ==
    \A i \in Slots :
        pair.calls[i].result.state # "pending"
        => /\ pair.calls[i].order # <<>>
           /\ pair.calls[i].result = OwnOutcome(i)

OtherChildLeavesCall ==
    \A i \in Slots, j \in Slots :
        (i # j /\ OwnChild(j)' # OwnChild(j))
        => /\ pair.calls[i].run' = pair.calls[i].run
           /\ pair.calls[i].result' = pair.calls[i].result

\* C29: of two calls in flight together, on executors of the same or of
\* different variants, each one's response, thread id or error is what its
\* own child's output and exit code make it, and no event of the other
\* child changes it, under every interleaving of the two children's events.
Prop_C29_CallsIndependent ==
    /\ []SettledFromOwnChild
    /\ [][OtherChildLeavesCall]_vars

Wit_C29_OtherStillWriting ==
    /\ pair.calls[1].variant = "codex"
    /\ pair.calls[2].variant = "codex"
    /\ pair.calls[1].wrote = <<"{", "type=ts", ",", "tid=t1", "}", "\n",
                               "{", "type=ic", ",", "item=am:hi", "}", "\n">>
    /\ pair.calls[1].order = <<>>
    /\ pair.calls[2].wrote = <<"{", "type=ic", ",", "item=am:hi", "}">>
    /\ pair.calls[2].result.state = "fulfilled"
    /\ pair.calls[2].result.threadId = Undefined

Wit_C29_BothSettled ==
    /\ pair.calls[1].variant = "gemini"
    /\ pair.calls[2].variant = "codex"
    /\ pair.calls[1].result.state = "fulfilled"
    /\ pair.calls[1].result.threadId = "t1"
    /\ pair.calls[2].result.state = "rejected"
    /\ pair.calls[2].wroteErr = <<"boom", "\n">>
    /\ pair.calls[1].wroteErr = <<>>


-----------------------------------------------------------------------------
(* Executors across the calls of a session *)

\* The argument vector of a call, from its arguments and the configuration
IssuedArgs(v, c, cfg) ==
    LET message == Message(v, c.prompt, c.systemPrompt, c.filePaths, c.threadId)
    IN CASE v = "gemini" -> GeminiArgs(c.model, message, c.threadId)
         [] v = "codex" -> CodexArgs(c.model, message, c.threadId,
                                     cfg.codexReasoningEffort)
         [] v = "cursor" -> CursorArgs(c.model, message, c.threadId,
                                       cfg.codexReasoningEffort)
         [] v = "agent" -> AgentArgs(c.model, message, c.threadId)
         [] OTHER -> <<>>

\* The outcome of a CLI call, from its arguments and what its child did
OutcomeOfChild(v, c, order, snap) ==
    IF order[1] = "error" THEN Failure("spawn", Command(v), "", <<>>)
    ELSE CloseOutcome(v, snap.stdout, snap.stderr, snap.code, c.threadId)

IssuesFromArguments ==
    call.active
    => IF executor = "api"
       THEN /\ spawned = NoSpawn
            /\ request = [sent |-> TRUE, model |-> call.model,
                          messages |-> <<[role |-> "system",
                                          content |-> call.systemPrompt],
                                         [role |-> "user",
                                          content |-> call.prompt]>>]
       ELSE /\ request = NoRequest
            /\ spawned = [called |-> TRUE, command |-> Command(executor),
                          args |-> IssuedArgs(executor, call, config)]

SettlesFromBackend ==
    (call.active /\ result.state # "pending")
    => IF executor = "api"
       THEN \/ result = Failure("api-error", "", "", <<>>)
            \/ \E c \in Completions : result = ApiOutcome(c)
       ELSE /\ child.order # <<>>
            /\ result = OutcomeOfChild(executor, call, child.order, closeSnap)

\* C30: whatever calls, with whatever thread ids and results, came before
\* on the same executor, the argument vector or request of a call is the one
\* its own arguments and the configuration give, and its outcome is the one
\* its arguments and the backend's output give.
Inv_C30_NoStateAcrossCalls == IssuesFromArguments /\ SettlesFromBackend

Wit_C30_FreshAfterThread ==
    /\ turn = 2
    /\ executor = "gemini"
    /\ prev.returned = "t1"
    /\ call.threadId = Undefined
    /\ spawned.args = << <<"-m">>, <<"gemini-", "2.5-pro">>, <<"-o">>, <<"json">>,
                         <<"-p">>, <<"SYS", "\n\n", "ask">> >>
    /\ result.state = "fulfilled"
    /\ result.threadId = Undefined


-----------------------------------------------------------------------------
(* The thread id of a resumed turn *)

ResumedSuccess ==
    /\ executor \in CliVariants
    /\ call.active
    /\ Truthy(call.threadId)
    /\ result.state = "fulfilled"

\* The session or thread id the backend's output reports for the turn that
\* has closed, Undefined when it reports none
ReportedId ==
    IF executor = "codex" THEN ParseCodexJsonl(closeSnap.stdout).threadId
    ELSE IF executor = "gemini" THEN ParseGeminiJson(closeSnap.stdout).sessionId
    ELSE ParseCursorJson(closeSnap.stdout).sessionId

\* C31 as stated: a successful resumed turn of any CLI executor returns a
\* thread id, the one the backend reports for the turn or else the one the
\* caller supplied.
Inv_C31_ResumedReturnsThread ==
    ResumedSuccess
    => /\ Truthy(result.threadId)
       /\ result.threadId = IF ReportedId = Undefined THEN call.threadId
                            ELSE ReportedId

\* What the code does: every CLI executor returns the reported id, and only
\* the Cursor executor falls back to the caller's thread id.
Inv_C31_OnlyCursorFallsBack ==
    ResumedSuccess
    => result.threadId = IF ReportedId = Undefined /\ executor = "cursor"
                         THEN call.threadId ELSE ReportedId

Wit_C31_ThreadLost ==
    /\ executor = "codex"
    /\ call.threadId = "t1"
    /\ closeSnap.stdout = <<"{", "type=ic", ",", "item=am:hi", "}">>
    /\ result.state = "fulfilled"
    /\ result.threadId = Undefined

Wit_C31_CursorKeepsThread ==
    /\ executor = "cursor"
    /\ call.threadId = "t1"
    /\ closeSnap.stdout = <<"{", "res=ok", "}">>
    /\ result.state = "fulfilled"
    /\ result.threadId = "t1"


-----------------------------------------------------------------------------
(* The two failures of the Gemini executor on exit code 0 *)

GeminiExitZero == GeminiClosed /\ closeSnap.code = "0"

ValidJson == JsonParse(closeSnap.stdout).ok

NullDocument == ValidJson /\ JsonParse(closeSnap.stdout).isNull

HasResponse ==
    /\ ValidJson
    /\ ~NullDocument
    /\ TruthyText(OrEmpty(Get(JsonParse(closeSnap.stdout).fields, "response")))

FailedAs(kind) == result.state = "rejected" /\ result.kind = kind

\* C32 as stated: on exit code 0 the Gemini executor fails with 'No response
\* found in Gemini JSON output' exactly when stdout is a JSON document
\* without a non-empty response, and with 'Failed to parse Gemini JSON
\* output' exactly when stdout is not a JSON document.
Inv_C32_SeparatedByShape ==
    GeminiExitZero
    => /\ FailedAs("noresponse") <=> (ValidJson /\ ~HasResponse)
       /\ FailedAs("parse") <=> ~ValidJson

\* What the code does: the document `null` fails as a parse failure, and a
\* stdout whose SyntaxError message holds 'No response' fails with that
\* SyntaxError.
Inv_C32_ExceptNullAndRethrown ==
    LET rethrown == /\ ~ValidJson
                    /\ Contains(ParseErrorMessage(closeSnap.stdout),
                                <<"No response">>)
    IN GeminiExitZero
       => /\ FailedAs("noresponse") <=> (ValidJson /\ ~NullDocument /\ ~HasResponse)
          /\ FailedAs("parse") <=> (NullDocument \/ (~ValidJson /\ ~rethrown))
          /\ FailedAs("syntax") <=> rethrown
          /\ result.state = "fulfilled" <=> HasResponse

Wit_C32_NullFailsToParse ==
    /\ GeminiExitZero
    /\ closeSnap.stdout = <<"null">>
    /\ result = Failure("parse", "gemini", "0", <<"null">>)

Wit_C32_NoResponseField ==
    /\ GeminiExitZero
    /\ closeSnap.stdout = <<"{", "resp=", "}">>
    /\ FailedAs("noresponse")


Wit_C32_InvalidNotParseFailure ==
    /\ GeminiExitZero
    /\ ~ValidJson
    /\ Contains(closeSnap.stdout, <<"No response">>)
    /\ FailedAs("syntax")
    /\ result.detail = ParseErrorMessage(closeSnap.stdout)


-----------------------------------------------------------------------------
(* runCli in buffered and in streaming mode.  In streaming mode stdout goes *)
(* through readline.createInterface, whose 'line' listener is onLine.       *)

\* A text is a sequence of characters here; "\n" and "\r" end a line.
IsLineEnd(ch) == ch = "\n" \/ ch = "\r"

HasLineEnd(text) == \E i \in 1..Len(text) : IsLineEnd(text[i])

\* The line endings of readline, /\r?\n|\r(?!\n)/: the lines of a text that
\* end in one, and the rest after the last one
RECURSIVE ReadlineSplit(_)
ReadlineSplit(text) ==
    IF ~HasLineEnd(text) THEN [lines |-> <<>>, rest |-> text]
    ELSE LET i == CHOOSE j \in 1..Len(text) :
                      IsLineEnd(text[j]) /\ \A k \in 1..(j - 1) : ~IsLineEnd(text[k])
             width == IF text[i] = "\r" /\ i < Len(text) /\ text[i + 1] = "\n"
                      THEN 2 ELSE 1
             after == ReadlineSplit(SubSeq(text, i + width, Len(text)))
         IN [lines |-> <<SubSeq(text, 1, i - 1)>> \o after.lines,
             rest |-> after.rest]

\* The 'data' listener of the readline interface: a "\n" that follows the
\* "\r" at the end of the previous chunk within crlfDelay is dropped; a chunk
\* with a line ending is joined to the line buffer and split, every line is
\* emitted, and the rest is kept; a chunk without one is added to the buffer.
ReadlineWrite(s, chunk, late) ==
    LET strip == s.sawReturn /\ ~late /\ chunk # <<>> /\ chunk[1] = "\n"
        string == IF strip THEN Tail(chunk) ELSE chunk
    IN IF HasLineEnd(string)
       THEN LET split == ReadlineSplit(s.buffer \o string)
            IN [s EXCEPT !.delivered = @ \o split.lines,
                         !.buffer = split.rest,
                         !.sawReturn = string[Len(string)] = "\r"]
       ELSE [s EXCEPT !.buffer = @ \o string, !.sawReturn = FALSE]

\* An 'end' listener that closes the interface without the pending line
ReadlineEndDropsLast(s) == [s EXCEPT !.buffer = <<>>, !.ended = TRUE]

\* The 'end' listener of the readline interface: a non-empty line buffer is
\* emitted as the last line
ReadlineEnd(s) ==
    [s EXCEPT !.delivered = IF s.buffer # <<>> THEN Append(@, s.buffer) ELSE @,
              !.buffer = <<>>,
              !.ended = TRUE]

StreamFrame == UNCHANGED <<config, runtime, executor, turn, call, spawned, child,
                           stdout, stderr, nData, run, result, closeSnap,
                           request, warnings, prev, legacy, pair, log, serverVars>>

\* runCli(command, args, options): streaming when options.onLine is there
StreamRunCli(streaming) ==
    /\ ~stream.active
    /\ stream' = [NoStream EXCEPT !.active = TRUE, !.streaming = streaming]
    /\ StreamFrame

\* 'data' on the stdout of the child
StreamStdout(chunk, late) ==
    /\ stream.active
    /\ ~stream.ended
    /\ stream.chunks < MaxChunks
    /\ LET s == [stream EXCEPT !.wrote = @ \o chunk, !.chunks = @ + 1]
       IN stream' = IF stream.streaming THEN ReadlineWrite(s, chunk, late)
                    ELSE [s EXCEPT !.stdout = @ \o chunk]
    /\ StreamFrame

\* 'data' on the stderr of the child: stderr += data.toString()
StreamStderr(chunk) ==
    /\ stream.active
    /\ stream.stderr = <<>>
    /\ \A i \in 1..Len(stream.order) : stream.order[i] # "close"
    /\ stream' = [stream EXCEPT !.stderr = @ \o chunk]
    /\ StreamFrame

\* 'end' of the stdout of the child
StreamEnd ==
    /\ stream.active
    /\ ~stream.ended
    /\ stream' = IF stream.streaming THEN ReadlineEnd(stream)
                 ELSE [stream EXCEPT !.ended = TRUE]
    /\ StreamFrame

\* 'close' of the child, which follows the end of its stdio streams
StreamClose(code) ==
    /\ stream.active
    /\ stream.ended
    /\ \A i \in 1..Len(stream.order) : stream.order[i] # "close"
    /\ stream' = [stream EXCEPT
                    !.order = Append(@, "close"),
                    !.run = Settle(@, RunCliOnClose(stream.stdout, stream.stderr,
                                                    code))]
    /\ StreamFrame

\* 'error' of the child
StreamError ==
    /\ stream.active
    /\ \A i \in 1..Len(stream.order) : stream.order[i] # "error"
    /\ stream' = [stream EXCEPT
                    !.order = Append(@, "error"),
                    !.run = Settle(@, RunCliOnError("codex"))]
    /\ StreamFrame

StreamChunks ==
    {<<"a", "\n">>, <<"b">>, <<"a", "\r">>, <<"\n", "b", "\n">>,
     <<"a", "\r", "\n", "\n", "b">>}

StreamStart == \E streaming \in BOOLEAN : StreamRunCli(streaming)
StreamOut == \E c \in StreamChunks, late \in BOOLEAN : StreamStdout(c, late)
StreamErr == \E c \in StderrChunks : StreamStderr(c)
StreamExit == \E code \in ExitCodes : StreamClose(code)

NextStream ==
    \/ StreamStart
    \/ StreamOut
    \/ StreamErr
    \/ StreamEnd
    \/ StreamExit
    \/ StreamError

SpecStream == InitPair /\ [][NextStream]_vars

\* The lines of a text as String.prototype.split('\n') gives them, without
\* the empty piece after a final newline
NewlineLines(text) ==
    LET pieces == SplitLines(text)
    IN IF pieces[Len(pieces)] = <<>> THEN SubSeq(pieces, 1, Len(pieces) - 1)
       ELSE pieces

StreamResolved == stream.active /\ stream.run.state = "fulfilled"

BufferedAsStated ==
    (StreamResolved /\ ~stream.streaming)
    => /\ stream.run.stdout = stream.wrote
       /\ stream.delivered = <<>>

NoCarriageReturn == \A i \in 1..Len(stream.wrote) : stream.wrote[i] # "\r"

Wit_C33_LastLineFlushed ==
    /\ StreamResolved
    /\ stream.streaming
    /\ stream.wrote = <<"a", "\n", "b">>
    /\ stream.delivered = << <<"a">>, <<"b">> >>
    /\ stream.run.stdout = <<>>


-----------------------------------------------------------------------------
(* The argument vector of the Codex executor *)

CodexCall == executor = "codex" /\ call.active

\* The prompt argument: the message with its file references, after the
\* system prompt on a fresh turn
CodexPrompt ==
    LET message == AppendFilesAt(call.prompt, call.filePaths)
    IN IF Truthy(call.threadId) THEN message
       ELSE call.systemPrompt \o Sep \o message

ConfiguredEffort == config.codexReasoningEffort # Undefined

ExpectedEffortPair ==
    IF ConfiguredEffort
    THEN << <<"-c">>,
            <<"model_reasoning_effort=", "\"", config.codexReasoningEffort, "\"">> >>
    ELSE <<>>

\* C34: the Codex executor spawns exec --json --skip-git-repo-check [-c
\* model_reasoning_effort="E"] -m model prompt on a fresh turn and exec
\* resume --json --skip-git-repo-check [-c ...] -m model threadId prompt on a
\* resumed one, the effort pair being there exactly when an effort is
\* configured, and the prompt is the last argument.
Inv_C34_CodexArgumentVector ==
    CodexCall
    => /\ spawned.command = "codex"
       /\ spawned.args =
            IF Truthy(call.threadId)
            THEN << <<"exec">>, <<"resume">>, <<"--json">>,
                    <<"--skip-git-repo-check">> >>
                 \o ExpectedEffortPair
                 \o << <<"-m">>, call.model, <<call.threadId>>, CodexPrompt >>
            ELSE << <<"exec">>, <<"--json">>, <<"--skip-git-repo-check">> >>
                 \o ExpectedEffortPair
                 \o << <<"-m">>, call.model, CodexPrompt >>
       /\ spawned.args[Len(spawned.args)] = CodexPrompt
       /\ (\E i \in 1..Len(spawned.args) : spawned.args[i] = <<"-c">>)
            <=> ConfiguredEffort

Wit_C34_ResumedWithEffort ==
    /\ CodexCall
    /\ config.codexReasoningEffort = "high"
    /\ call.threadId = "t1"
    /\ Len(spawned.args) = 10
    /\ spawned.args[5] = <<"-c">>
    /\ spawned.args[9] = <<"t1">>

Wit_C34_FreshWithoutEffort ==
    /\ CodexCall
    /\ config.codexReasoningEffort = Undefined
    /\ call.threadId = Undefined
    /\ Len(spawned.args) = 6


-----------------------------------------------------------------------------
(* The model name the Cursor executor passes to cursor-agent *)

CursorCall == executor = "cursor" /\ call.active

\* The requested model without '-preview', with '-<effort>' after it when an
\* effort is configured and the name holds '-codex'
ExpectedCursorName ==
    LET stripped == SelectSeq(call.model, LAMBDA t : t # "-preview")
        codex == \E i \in 1..Len(stripped) : stripped[i] = "-codex"
    IN IF ConfiguredEffort /\ codex
       THEN stripped \o <<"-", config.codexReasoningEffort>>
       ELSE stripped

\* The argument that follows flag in the spawned argument vector
ArgAfter(flag) ==
    LET i == CHOOSE j \in 1..Len(spawned.args) : spawned.args[j] = flag
    IN spawned.args[i + 1]

\* C35: the Cursor executor passes the requested model without '-preview'
\* and, exactly when an effort is configured and the name holds '-codex',
\* with '-<effort>' appended; the cache key of the resolver starts with the
\* model id as requested, and every other executor passes the model id as
\* it is.
Inv_C35_CursorModelName ==
    /\ CursorCall => ArgAfter(<<"--model">>) = ExpectedCursorName
    /\ (call.active /\ executor = "agent") => ArgAfter(<<"--model">>) = call.model
    /\ (call.active /\ executor \in {"gemini", "codex"})
          => ArgAfter(<<"-m">>) = call.model
    /\ (call.active /\ executor = "api") => request.model = call.model
    /\ \A m \in ModelsFor("cursor"), o \in Modes, g \in Modes :
          LET key == CacheKey(m, [config EXCEPT !.openaiMode = o,
                                                !.geminiMode = g])
          IN SubSeq(key, 1, Len(m)) = m

Wit_C35_PreviewStripped ==
    /\ CursorCall
    /\ call.model = <<"gemini-", "3-pro", "-preview">>
    /\ config.codexReasoningEffort = "high"
    /\ spawned.args[8] = <<"gemini-", "3-pro">>

Wit_C35_EffortAppended ==
    /\ CursorCall
    /\ call.model = <<"gpt-", "5.3", "-codex">>
    /\ spawned.args[8] = <<"gpt-", "5.3", "-codex", "-", "high">>


-----------------------------------------------------------------------------
(* A request on a Gemini or Codex executor whose log writes can fail *)

\* A logToFile that lets the error of appendFileSync escape
LogToFileRethrows(fails) == [reported |-> 0, threw |-> fails]

\* logToFile: appendFileSync in a try, the error goes to console.error
LogToFile(fails) == [reported |-> IF fails THEN 1 ELSE 0, threw |-> FALSE]

LogError == Failure("log", "", "", <<>>)

LogFrame == UNCHANGED <<config, runtime, executor, turn, call, spawned, child,
                        stdout, stderr, nData, run, result, closeSnap,
                        request, warnings, prev, legacy, pair, stream,
                        serverVars>>

Count1(b) == IF b THEN 1 ELSE 0

\* handleConsultLlm up to the spawn in runCli: logToolCall, then, inside the
\* try of runCli, logCliDebug('Spawning ...') and spawn
LogHandle(v, failsTool, failsSpawn) ==
    /\ ~log.active
    /\ LET tool == LogToFile(failsTool)
           spawn == LogToFile(failsSpawn)
           started == [NoLog EXCEPT !.active = TRUE, !.variant = v]
       IN log' = IF tool.threw
                 THEN [started EXCEPT !.returned = LogError,
                                      !.failures = Count1(failsTool),
                                      !.reported = tool.reported]
                 ELSE [started EXCEPT
                         !.run = IF spawn.threw THEN RunRejected("sync", Command(v))
                                 ELSE RunPending,
                         !.failures = Count1(failsTool) + Count1(failsSpawn),
                         !.reported = tool.reported + spawn.reported]
    /\ LogFrame

LogChildAlive ==
    /\ log.active
    /\ log.returned.state = "pending"
    /\ log.run # RunRejected("sync", Command(log.variant))

LogOpen ==
    /\ LogChildAlive
    /\ \A i \in 1..Len(log.order) : log.order[i] # "close"

LogStdout(chunk) ==
    /\ LogOpen
    /\ log.stdout = <<>>
    /\ log' = [log EXCEPT !.stdout = @ \o chunk]
    /\ LogFrame

LogStderr(chunk) ==
    /\ LogOpen
    /\ log.stderr = <<>>
    /\ log' = [log EXCEPT !.stderr = @ \o chunk]
    /\ LogFrame

\* 'close': logCliDebug('... process closed'), then resolve
LogClose(code, fails) ==
    /\ LogOpen
    /\ LET w == LogToFile(fails)
       IN log' = [log EXCEPT
                    !.order = Append(@, "close"),
                    !.snap = [taken |-> TRUE, stdout |-> log.stdout,
                              stderr |-> log.stderr, code |-> code],
                    !.run = IF w.threw THEN @
                            ELSE Settle(@, RunCliOnClose(log.stdout, log.stderr,
                                                         code)),
                    !.failures = @ + Count1(fails),
                    !.reported = @ + w.reported]
    /\ LogFrame

\* 'error': logCliDebug('Failed to spawn ...'), then reject
LogChildError(fails) ==
    /\ LogChildAlive
    /\ \A i \in 1..Len(log.order) : log.order[i] # "error"
    /\ LET w == LogToFile(fails)
       IN log' = [log EXCEPT
                    !.order = Append(@, "error"),
                    !.run = IF w.threw THEN @
                            ELSE Settle(@, RunCliOnError(Command(log.variant))),
                    !.failures = @ + Count1(fails),
                    !.reported = @ + w.reported]
    /\ LogFrame

\* The continuation of `await runCli(...)`: the Gemini executor logs the raw
\* output before it throws the parse error
LogAwait(fails) ==
    /\ log.active
    /\ log.run.state # "pending"
    /\ log.result.state = "pending"
    /\ LET outcome == AfterRun(log.variant, log.run)
           writes == outcome.state = "rejected" /\ outcome.kind = "parse"
           w == LogToFile(fails /\ writes)
       IN log' = [log EXCEPT
                    !.result = IF w.threw THEN LogError ELSE outcome,
                    !.failures = @ + Count1(fails /\ writes),
                    !.reported = @ + w.reported]
    /\ LogFrame

\* queryLlm returns, then `await logResponse(...)` and the return
LogRespond(fails) ==
    /\ log.active
    /\ log.result.state # "pending"
    /\ log.returned.state = "pending"
    /\ LET q == QueryLlm(log.result)
           writes == q.state = "fulfilled"
           w == LogToFile(fails /\ writes)
       IN log' = [log EXCEPT
                    !.returned = IF w.threw THEN LogError ELSE HandlerReturn(q),
                    !.failures = @ + Count1(fails /\ writes),
                    !.reported = @ + w.reported]
    /\ LogFrame

LogStart ==
    \E v \in {"gemini", "codex"}, t \in BOOLEAN, s \in BOOLEAN : LogHandle(v, t, s)
LogOut == \E c \in WholeOutputs(log.variant) : LogStdout(c)
LogErr == \E c \in StderrChunks : LogStderr(c)
LogExit == \E code \in ExitCodes, f \in BOOLEAN : LogClose(code, f)
LogFail == \E f \in BOOLEAN : LogChildError(f)
LogContinue == \E f \in BOOLEAN : LogAwait(f)
LogReturn == \E f \in BOOLEAN : LogRespond(f)

NextLog ==
    \/ LogStart
    \/ LogOut
    \/ LogErr
    \/ LogExit
    \/ LogFail
    \/ LogContinue
    \/ LogReturn

SpecLog == InitPair /\ [][NextLog]_vars

\* The promise of runCli as the child's events alone determine it
RunFromChild ==
    IF log.order = <<>> THEN RunPending
    ELSE IF log.order[1] = "error" THEN RunCliOnError(Command(log.variant))
    ELSE RunCliOnClose(log.snap.stdout, log.snap.stderr, log.snap.code)

\* C36: whichever log writes fail, every failure is reported on stderr, and
\* the promise of runCli, the result of execute and the result or error of
\* handleConsultLlm are the ones the child's events give when every write
\* succeeds.
Inv_C36_LogFailureHarmless ==
    log.active
    => /\ log.reported = log.failures
       /\ log.run = RunFromChild
       /\ log.result.state # "pending" => log.result = AfterRun(log.variant, log.run)
       /\ log.returned.state # "pending"
            => log.returned = HandlerReturn(QueryLlm(log.result))

Wit_C36_AnsweredDespiteFailures ==
    /\ log.active
    /\ log.failures = 4
    /\ log.reported = 4
    /\ log.returned.state = "fulfilled"
    /\ log.returned.text = <<"[thread_id:", "t1", "]", "\n\n", "hi">>

Wit_C36_ErrorDespiteFailures ==
    /\ log.active
    /\ log.variant = "gemini"
    /\ log.failures >= 3
    /\ log.returned.state = "rejected"
    /\ log.returned.kind = "parse"


-----------------------------------------------------------------------------
(* Files of a request that is not in web mode *)

\* A request, not in web mode, that has reached queryLlm
Queried == ~req.webMode /\ effects.executed

FileContentInPrompt ==
    \E i \in 1..Len(effects.prompt) : effects.prompt[i] = "content of a.ts"

DiffBlock == <<"## Git Diff", "\n", "diff-output", "\n">>

\* C37: a request outside web mode has the contents of its files in the
\* prompt, and no file paths passed on, exactly when the executor lacks
\* supportsFileRefs; otherwise no file is read, the paths of the files are
\* passed on, and the prompt is the git diff block, when there is one, and
\* the user prompt.
Inv_C37_InlineOrPaths ==
    Queried
    => LET refs == Capabilities(req.executor.variant).supportsFileRefs
       IN /\ (req.hasFiles /\ ~refs)
               <=> (effects.filesRead /\ FileContentInPrompt)
          /\ ~refs => ~effects.filePathsPassed
          /\ refs => /\ ~effects.filesRead
                     /\ ~FileContentInPrompt
                     /\ effects.filePathsPassed = req.hasFiles
                     /\ effects.prompt = (IF req.hasDiff THEN DiffBlock ELSE <<>>)
                                         \o <<"ask">>
          /\ effects.diffGenerated = req.hasDiff

Wit_C37_Inlined ==
    /\ Queried
    /\ req.executor.variant = "api"
    /\ req.hasFiles
    /\ req.hasDiff
    /\ effects.filesRead
    /\ ~effects.filePathsPassed
    /\ FileContentInPrompt

Wit_C37_PathsPassed ==
    /\ Queried
    /\ req.executor.variant = "codex"
    /\ req.hasFiles
    /\ effects.filePathsPassed
    /\ effects.prompt = <<"ask">>

-----------------------------------------------------------------------------
(* The model catalog of schema.ts and the resolver that shipped with it:    *)
(* the OpenAI rule also names 'o3', and the CLI executors are the generic   *)
(* createCliExecutor.                                                        *)

\* ALL_MODELS
ALL_MODELS ==
    {<<"o3">>, <<"gemini-", "2.5-pro">>, <<"gemini-", "3-pro", "-preview">>,
     <<"deepseek-", "reasoner">>, <<"gpt-", "5.2">>, <<"gpt-", "5.2", "-codex">>,
     <<"gpt-", "5.1", "-codex", "-max">>, <<"gpt-", "5.1", "-codex">>,
     <<"gpt-", "5.1", "-codex", "-mini">>, <<"gpt-", "5.1">>}

\* ENABLED_MODELS: the catalog filtered by CONSULT_LLM_ALLOWED_MODELS, the
\* whole catalog when the list is empty; z.enum(ENABLED_MODELS) accepts
\* exactly its members
EnabledModels(allowedModels) ==
    IF allowedModels # {} THEN {m \in ALL_MODELS : m \in allowedModels}
    ELSE ALL_MODELS

\* An OpenAI rule that knows the gpt- prefix only
IsOpenaiModelPrefixOnly(model) == StartsWith(model, <<"gpt-">>)

\* model.startsWith('gpt-') || model === 'o3'
IsOpenaiModel(model) == StartsWith(model, <<"gpt-">>) \/ model = <<"o3">>

\* cacheKey = model + `-${openaiMode}` for gpt- and o3 + `-${geminiMode}` for
\* gemini-
LegacyCacheKey(model, cfg) ==
    model
    \o (IF IsOpenaiModel(model) THEN <<"-", cfg.openaiMode>> ELSE <<>>)
    \o (IF StartsWith(model, <<"gemini-">>) THEN <<"-", cfg.geminiMode>> ELSE <<>>)

\* The branch of the resolver a model takes
LegacyProvider(model, cfg) ==
    IF IsOpenaiModel(model)
    THEN IF cfg.openaiMode = "cli" THEN [variant |-> "codex", client |-> ""]
         ELSE [variant |-> "api", client |-> "openai"]
    ELSE IF StartsWith(model, <<"deepseek-">>)
    THEN [variant |-> "api", client |-> "deepseek"]
    ELSE IF StartsWith(model, <<"gemini-">>)
    THEN IF cfg.geminiMode = "cli" THEN [variant |-> "gemini", client |-> ""]
         ELSE [variant |-> "api", client |-> "geminiApi"]
    ELSE [variant |-> "", client |-> ""]

\* getExecutorForModel(model): what it returns or throws, and the caches after
LegacyResolution(model, cfg, cache, clients) ==
    LET cacheKey == LegacyCacheKey(model, cfg)
        provider == LegacyProvider(model, cfg)
        unchanged == [cache |-> cache, clients |-> clients, created |-> FALSE,
                      newClient |-> ""]
    IN IF Has(cache, cacheKey)
       THEN [threw |-> "", detail |-> <<>>, executor |-> cache[cacheKey]]
            @@ unchanged
       ELSE IF provider.variant = ""
       THEN [threw |-> "provider", detail |-> model, executor |-> NoExecutor]
            @@ unchanged
       ELSE IF provider.client # "" /\ ClientThrows(provider.client, cfg, clients)
       THEN [threw |-> "apikey", detail |-> EnvVar(provider.client),
             executor |-> NoExecutor] @@ unchanged
       ELSE LET client == ClientFor(provider.client, clients)
                new == [key |-> cacheKey, instance |-> Count(cacheKey) + 1,
                        variant |-> provider.variant, client |-> client]
            IN [threw |-> "", detail |-> <<>>, executor |-> new,
                cache |-> Put(cache, cacheKey, new),
                clients |-> IF provider.client = "" THEN clients
                            ELSE Put(clients, provider.client, client),
                created |-> TRUE,
                newClient |-> IF provider.client # ""
                                 /\ ~HasClient(clients, provider.client)
                              THEN provider.client ELSE ""]

\* A call of getExecutorForModel for a model the request validation accepted
LegacyGetExecutorForModel(model) ==
    LET r == LegacyResolution(model, config, executorCache, clientCache)
        cacheKey == LegacyCacheKey(model, config)
    IN /\ r.created => Cardinality(DOMAIN executorCache) < MaxCached
       /\ executorCache' = r.cache
       /\ clientCache' = r.clients
       /\ nextId' = (IF r.created THEN Put(nextId, cacheKey, Count(cacheKey) + 1)
                     ELSE nextId)
                    @@ (IF r.newClient = "" THEN EmptyMap
                        ELSE Put(EmptyMap, <<r.newClient>>, 1))
       /\ UNCHANGED <<config, execVars, req, effects, resolved>>

CatalogGet == \E m \in ALL_MODELS : LegacyGetExecutorForModel(m)

NextCatalog ==
    \/ CatalogGet
    \/ ResolverSetOpenai
    \/ ResolverSetGemini

SpecCatalog == InitResolver /\ [][NextCatalog]_vars

\* The allow lists CONSULT_LLM_ALLOWED_MODELS is given: none, catalog models,
\* and names the catalog does not hold
AllowLists ==
    {{}, {<<"o3">>}, {<<"gpt-", "5.2">>, <<"gemini-", "2.5-pro">>},
     {<<"o3">>, <<"mystery-model">>}, {<<"mystery-model">>}}

\* The provider rules of the resolver a model id satisfies
MatchedRules(model) ==
    {rule \in {"openai", "deepseek", "gemini"} :
        \/ rule = "openai" /\ IsOpenaiModel(model)
        \/ rule = "deepseek" /\ StartsWith(model, <<"deepseek-">>)
        \/ rule = "gemini" /\ StartsWith(model, <<"gemini-">>)}

\* The rule whose branch the resolver takes for a model id
FamilyOf(model) ==
    LET variants == {LegacyProvider(model, [config EXCEPT !.openaiMode = "cli",
                                                          !.geminiMode = "cli"]).variant}
        clients == {LegacyProvider(model, [config EXCEPT !.openaiMode = "api",
                                                         !.geminiMode = "api"]).client}
    IN CASE "codex" \in variants -> "openai"
         [] "gemini" \in variants -> "gemini"
         [] "deepseek" \in clients -> "deepseek"
         [] OTHER -> ""

\* C38: every model id the request validation can accept, under any allow
\* list, satisfies exactly one provider rule of the resolver, the resolver
\* takes the branch of that rule, and a call for it in any reachable state of
\* the caches and the backend preferences does not end with 'Unable to
\* determine LLM provider'.
Inv_C38_CatalogHasOneFamily ==
    \A allowedModels \in AllowLists :
        \A m \in EnabledModels(allowedModels) :
            /\ Cardinality(MatchedRules(m)) = 1
            /\ MatchedRules(m) = {FamilyOf(m)}
            /\ LegacyResolution(m, config, executorCache, clientCache).threw
                   # "provider"

\* 'o3', which carries no prefix, was resolved in both modes and each time to
\* the executor of the OpenAI family
Wit_C38_O3Resolved ==
    /\ <<"o3", "-", "cli">> \in DOMAIN executorCache
    /\ executorCache[<<"o3", "-", "cli">>].variant = "codex"
    /\ <<"o3", "-", "api">> \in DOMAIN executorCache
    /\ executorCache[<<"o3", "-", "api">>].client.provider = "openai"

====
